---- MODULE Spec2Model ----
(***************************************************************************)
(* A model of jjleewustledu/idif2024: the Gaussian log-likelihood          *)
(* evaluator (Artery.loglike, TissueModel.loglike), the nested-sampling    *)
(* solver orchestration (DynestySolverLegacy.run_nested_for_list, driven   *)
(* by TissueModel.run_nested and TissueModel.run_nested_for_indexed_tac),  *)
(* the fan-out coordinators (main6.py, main_tz3108.py, main6_1.py,         *)
(* main4.py), the posterior quantiles (DynestySolverLegacy.quantile), the  *)
(* prior transforms and bolus solutions of Artery, and the frame           *)
(* averaging of Boxcar.                                                    *)
(*                                                                         *)
(* The specifications share the module's variables; each leaves the        *)
(* variables of the other components at their initial values:              *)
(*   SpecLoglike   one evaluation of loglike on a proposal                 *)
(*   SpecSolver    the fits of a TissueModel, one run of the solver each   *)
(*   SpecFanout    one execution of a coordinator script                   *)
(*   SpecQuantile  one call of quantile and the package built from it      *)
(*   SpecPrior     one call of a prior transform on a hypercube sample     *)
(*   SpecBolus     one evaluation of the bolus solutions on a time grid    *)
(*   SpecBoxcar    one call of apply_boxcar, of Boxcar.signalmodel and of  *)
(*                 Boxcar.loglike                                          *)
(*   SpecGlobals   several Boxcar fits in one process, sharing the module  *)
(*                 globals RHO, TAUS, TIMES_MID                            *)
(*   SpecObjects   the construction of a data object or of an Artery, and  *)
(*                 the reads of its input_func_measurement property        *)
(*   SpecTissueModel  the construction of a TissueModel and the later      *)
(*                 calls of adjusted_input_function and fqfp_results       *)
(***************************************************************************)
EXTENDS Integers, Sequences, FiniteSets, TLC

VARIABLES
    \* ---- likelihood evaluator
    llCls,        \* the class whose loglike is called
    llV,          \* the proposal v (a sequence; v[-1] is its last element)
    llPred,       \* rho_pred, what signalmodel(data(v)) returned
    llObs,        \* data["rho"], the observed curve
    llPc,         \* "ready" before the call, "returned" after it
    llRet,        \* the value loglike returned
    \* ---- solver orchestration
    entry,        \* which method launches the fits
    ckptArg,      \* the checkpoint_file argument the entry point was given
    resumeArg,    \* the resume argument the entry point was given
    files,        \* the checkpoint files that exist on disk
    ckpt,         \* per file: the region whose sampler the file holds
    owner,        \* per region: the region whose row the likelihood of the
                  \* sampler of its call compares against (the pickled model
                  \* of a restored sampler keeps the RHO it was saved with)
    sstate,       \* per region: the position of its run_nested_for_list call
    spath,        \* per region: the positions its call went through
    sampler,      \* per region: the sampler its call holds
    built,        \* per region: how many samplers its calls constructed
    resRead,      \* per region: whether sampler.results was read
    fits,         \* per region: the call of run_nested_for_list made for it
    restarts,     \* how many times the process was restarted
    saved,        \* how many times run_nested called save_results
    \* ---- fan-out coordinator
    prog,         \* which coordinator script runs
    tracerKnown,  \* whether work() recognises the tracer of pet_measurement
    pc,           \* the coordinator's position
    wstatus,      \* per region: the state of its worker in the pool
    completion,   \* the regions in the order their workers finished
    outOfOrder,   \* whether some worker finished before an earlier region's
    packages,     \* what starmap returned
    k,            \* the index of the next package the aggregation loop takes
    ress, logzs, informations, qms, qls, qhs, rhos_pred, resids,
    aggRaised,    \* the regions whose aggregation step raised
    logged,       \* the regions logging.exception wrote a record for
    bundle,       \* package1, once assembled
    saveCalls,    \* how many times the coordinator called save_results
    excOut        \* the exception that propagated out of the coordinator

llvars  == <<llCls, llV, llPred, llObs, llPc, llRet>>
solvars == <<entry, ckptArg, resumeArg, files, ckpt, owner, sstate, spath, sampler, built,
             resRead, fits, restarts, saved>>
fanvars == <<prog, tracerKnown, pc, wstatus, completion, outOfOrder, packages,
             k, ress, logzs, informations, qms, qls, qhs, rhos_pred, resids,
             aggRaised, logged, bundle, saveCalls, excOut>>

VARIABLES
    \* ---- posterior quantiles
    qSamples,     \* res["samples"]: one row per posterior sample
    qWeights,     \* res.importance_weights(): one weight per posterior sample
    qRetries,     \* whether the numpy in use retries a NaN segment of np.interp
    qPc,          \* "ready", then "returned" or "raised", then "packaged"
    qRet,         \* the tuple quantile returned, <<>> before it returns
    qRaised,      \* the exception that left quantile
    qPkg          \* the package run_nested_for_indexed_tac assembled


VARIABLES
    \* ---- prior transform
    ptCls,        \* the model class: "Artery" or "Boxcar"
    ptTracer,     \* self.tracer
    ptDrawn,      \* the values of the unit-hypercube sample when it was drawn
    ptU,          \* the values the caller's array u holds
    ptPc,         \* "ready", "selected", "returned", "mixed"
    ptTable,      \* the table prior_transform() selected
    ptV,          \* the values of the vector the table returned
    ptSameObject, \* whether the returned vector is the caller's array u itself
    ptWeights     \* the mixture weights the solutions derive from ptV


VARIABLES
    \* ---- bolus solutions
    boT,          \* the time grid t
    boV,          \* the parameters handed to the solutions
    boPc,         \* "ready", "bolus", then "mixed" or "mixed3"
    boRho1,       \* what solution_1bolus returned
    boMix,        \* the four-bolus mixture scaled by the amplitude A ("mixed"),
                  \* or what solution_3bolus returned ("mixed3")
    boCalls       \* the arrival time and shape of each call of solution_1bolus
                  \* the mixture made

VARIABLES
    \* ---- boxcar sampling
    bxVec,        \* the dense curve handed to apply_boxcar
    bxTimesMid,   \* data['timesMid']
    bxTaus,       \* data['taus']
    bxV,          \* data['v'], the parameter vector
    bxPc,         \* "ready", then "sampled", "returned", "raised" or "scored"
    bxSampled,    \* what apply_boxcar returned
    bxRet,        \* what signalmodel returned
    bxRaised,     \* the exception that left signalmodel or loglike
    bxLoglike     \* what loglike returned: "none" before, "number" after

VARIABLES
    \* ---- Boxcar fits in one process
    bgMeas,       \* per fit: the measurement its constructor is given
    bgBuilt,      \* the fits whose Boxcar was constructed
    bgRHO,        \* the module global RHO of Boxcar.py
    bgTAUS,       \* the module global TAUS
    bgTIMES_MID,  \* the module global TIMES_MID
    bgSeen        \* per fit: the timing and curve its last data/loglike call used

qvars   == <<qSamples, qWeights, qRetries, qPc, qRet, qRaised, qPkg>>
bovars  == <<boT, boV, boPc, boRho1, boMix, boCalls>>
ptvars  == <<ptCls, ptTracer, ptDrawn, ptU, ptPc, ptTable, ptV, ptSameObject, ptWeights>>
bxvars  == <<bxVec, bxTimesMid, bxTaus, bxV, bxPc, bxSampled, bxRet, bxRaised,
             bxLoglike>>
bgvars  == <<bgMeas, bgBuilt, bgRHO, bgTAUS, bgTIMES_MID, bgSeen>>

\* --- construction of the data objects and of Artery, and their
\* --- input_func_measurement property
VARIABLES
    obCls,        \* the class constructed
    obKeys,       \* the keys of data_dict (InputFuncData, RadialArteryData)
    obTracer,     \* the tracer argument (Artery)
    obName,       \* what input_func_measurement is: a kind of file name, or a dict
    obIsFile,     \* whether the file exists
    obAsserts,    \* whether assert statements execute (they do not under -O)
    obPc,         \* "new", "built", "raised" or "fitted"
    obRaised,     \* the exception that left the constructor
    obAttrs,      \* the names of the instance attributes that are set
    obHeld,       \* what the attribute of an Artery holds: "name" or "dict"
    obSelfTracer, \* self.tracer of an Artery
    obLoads,      \* how many times the property went to the I/O layer
    obReads,      \* how many times the property was read after construction
    obSolver,     \* whether a solver was constructed for the object
    obEvals       \* how many times the likelihood was evaluated

obvars  == <<obCls, obKeys, obTracer, obName, obIsFile, obAsserts, obPc, obRaised,
             obAttrs, obHeld, obSelfTracer, obLoads, obReads, obSolver, obEvals>>

\* --- construction of a TissueModel and its input-function model
VARIABLES
    tmInput,      \* the input_function argument: a kind of file name, or a dict
    tmTruths,     \* the truths argument: None or given
    tmIsFile,     \* whether the input-function file exists
    tmAsserts,    \* whether assert statements execute
    tmPc,         \* "new", "built" or "raised"
    tmRaised,     \* the exception that left the constructor
    tmARTERY,     \* the class of self.ARTERY, None when it is None or unset
    tmHeld,       \* what self._input_function holds: "name" or "dict"
    tmCalls,      \* calls of adjusted_input_function made after construction
    tmResults     \* the artery part of the last fqfp_results

tmvars  == <<tmInput, tmTruths, tmIsFile, tmAsserts, tmPc, tmRaised, tmARTERY,
             tmHeld, tmCalls, tmResults>>
extvars == <<bgvars, obvars, tmvars>>
numvars == <<qvars, ptvars, bovars, bxvars, extvars>>
vars    == <<llvars, solvars, fanvars, numvars>>

(***************************************************************************)
(* Bounds                                                                  *)
(***************************************************************************)
\* the largest finite magnitude of the float grid; beyond it a result is +/-Inf
FMax == 60
\* the number of observation frames of a curve
NFrames == 2
\* the largest finite prediction value tried
MaxPred == 8
\* the number of regions (parcels) of a measurement
NRegions == 3
\* how often the process may be restarted while a fit is running
MaxRestarts == 1
\* the largest number of posterior samples of a result
MaxSamples == 2
\* the bits of precision of the rounded arithmetic
Precision == 7
\* the last instant of the time grid 0, 1, ..., TLast
TLast == 3
\* the number of Boxcar fits made in one process
NFits == 2

Regions == 0 .. (NRegions - 1)

None == "None"

(***************************************************************************)
(* Floating point.  A float is NaN, +Inf, -Inf or a finite value; finite   *)
(* values are the integers of magnitude at most FMax, and the result of an *)
(* operation is rounded to that grid (overflow gives +/-Inf), as IEEE      *)
(* arithmetic rounds to float64.  numpy's error state lets these           *)
(* operations return NaN/Inf instead of raising.                           *)
(***************************************************************************)
FNaN == [kind |-> "nan", n |-> 0]
PInf == [kind |-> "inf", n |-> 1]
NInf == [kind |-> "inf", n |-> -1]
Fin(n) == [kind |-> "fin", n |-> n]

isfinite(x) == x.kind = "fin"

Round(n) ==
    IF n > FMax THEN PInf
    ELSE IF n < -FMax THEN NInf
    ELSE Fin(n)

Sign(x) == IF x.n > 0 THEN 1 ELSE IF x.n < 0 THEN -1 ELSE 0

Signed(s) == IF s > 0 THEN PInf ELSE NInf

FAdd(a, b) ==
    IF a.kind = "nan" \/ b.kind = "nan" THEN FNaN
    ELSE IF a.kind = "inf" /\ b.kind = "inf"
         THEN (IF a.n = b.n THEN a ELSE FNaN)
    ELSE IF a.kind = "inf" THEN a
    ELSE IF b.kind = "inf" THEN b
    ELSE Round(a.n + b.n)

FNeg(a) == IF a.kind = "nan" THEN FNaN ELSE [kind |-> a.kind, n |-> -a.n]

FSub(a, b) == FAdd(a, FNeg(b))

FMul(a, b) ==
    IF a.kind = "nan" \/ b.kind = "nan" THEN FNaN
    ELSE IF a.kind = "inf" \/ b.kind = "inf"
         THEN (IF Sign(a) * Sign(b) = 0 THEN FNaN ELSE Signed(Sign(a) * Sign(b)))
    ELSE Round(a.n * b.n)

Abs(n) == IF n < 0 THEN -n ELSE n

\* a / b; the zero of the grid is +0
FDiv(a, b) ==
    IF a.kind = "nan" \/ b.kind = "nan" THEN FNaN
    ELSE IF a.kind = "inf" /\ b.kind = "inf" THEN FNaN
    ELSE IF a.kind = "inf" THEN Signed(Sign(a) * (IF b.n < 0 THEN -1 ELSE 1))
    ELSE IF b.kind = "inf" THEN Fin(0)
    ELSE IF b.n = 0 THEN (IF a.n = 0 THEN FNaN ELSE Signed(Sign(a)))
    ELSE Round(Sign(a) * Sign(b) * (Abs(a.n) \div Abs(b.n)))

\* the integer part of the logarithm of n >= 1, to the base e rounded to 3
RECURSIVE ILog(_)
ILog(n) == IF n < 3 THEN 0 ELSE 1 + ILog(n \div 3)

\* np.log(x): -Inf at 0, NaN below 0
FLog(x) ==
    IF x.kind = "nan" THEN FNaN
    ELSE IF x.kind = "inf" THEN (IF x.n > 0 THEN PInf ELSE FNaN)
    ELSE IF x.n < 0 THEN FNaN
    ELSE IF x.n = 0 THEN NInf
    ELSE Fin(ILog(x.n))

\* -0.5 * x, rounded to the grid
FNegHalf(x) ==
    IF x.kind = "nan" THEN FNaN
    ELSE IF x.kind = "inf" THEN FNeg(x)
    ELSE Fin(-(x.n \div 2))

\* 2 * np.pi rounded to the grid
TwoPi == Fin(6)

RECURSIVE FSum(_)
\* np.sum of a sequence of floats
FSum(s) == IF s = <<>> THEN Fin(0) ELSE FAdd(FSum(SubSeq(s, 1, Len(s) - 1)), s[Len(s)])

(***************************************************************************)
(* Likelihood evaluator: Artery.loglike and TissueModel.loglike            *)
(***************************************************************************)
\* the finite sentinel, -1e300, a finite float just inside the range
Sentinel == Fin(1 - FMax)

\* v[-1]
Last(v) == v[Len(v)]

\* the body of loglike once signalmodel has returned rho_pred
LoglikeDropsGuard(v, rho_pred, rho) ==
    LET sigma   == Fin(Last(v))
        sigma2  == FMul(sigma, sigma)
        residsq == [i \in 1 .. Len(rho_pred) |->
                      FDiv(FMul(FSub(rho_pred[i], rho[i]), FSub(rho_pred[i], rho[i])),
                           sigma2)]
        terms   == [i \in 1 .. Len(rho_pred) |->
                      FAdd(residsq[i], FLog(FMul(TwoPi, sigma2)))]
    IN  FNegHalf(FSum(terms))

ArteryLoglike(v, rho_pred, rho) ==
    LET sigma   == Fin(Last(v))
        sigma2  == FMul(sigma, sigma)
        residsq == [i \in 1 .. Len(rho_pred) |->
                      FDiv(FMul(FSub(rho_pred[i], rho[i]), FSub(rho_pred[i], rho[i])),
                           sigma2)]
        terms   == [i \in 1 .. Len(rho_pred) |->
                      FAdd(residsq[i], FLog(FMul(TwoPi, sigma2)))]
        loglike == FNegHalf(FSum(terms))
    IN  IF ~isfinite(loglike) THEN Sentinel ELSE loglike

TissueModelLoglike(v, rho_pred, rho) ==
    LET sigma   == Fin(Last(v))
        sigma2  == FMul(sigma, sigma)
        residsq == [i \in 1 .. Len(rho_pred) |->
                      FDiv(FMul(FSub(rho_pred[i], rho[i]), FSub(rho_pred[i], rho[i])),
                           sigma2)]
        terms   == [i \in 1 .. Len(rho_pred) |->
                      FAdd(residsq[i], FLog(FMul(TwoPi, sigma2)))]
        loglike == FNegHalf(FSum(terms))
    IN  IF ~isfinite(loglike) THEN Sentinel ELSE loglike

\* the values a coordinate of the proposal takes
SigmaVals == {-1, 0, 1, 2}
\* the values a frame of the prediction takes
PredVals == {FNaN, PInf, NInf, Fin(0), Fin(1), Fin(MaxPred)}
\* the values a frame of the observed, normalised curve takes
ObsVals == {Fin(0), Fin(1)}

LLClasses == {"Artery", "TissueModel"}

LLInit ==
    /\ llCls \in LLClasses
    /\ llV \in [1 .. 2 -> SigmaVals]
    /\ llPred \in [1 .. NFrames -> PredVals]
    /\ llObs \in [1 .. NFrames -> ObsVals]
    /\ llPc = "ready"
    /\ llRet = FNaN

LLIdle ==
    /\ llCls = "Artery"
    /\ llV = <<0, 0>>
    /\ llPred = [i \in 1 .. NFrames |-> Fin(0)]
    /\ llObs = [i \in 1 .. NFrames |-> Fin(0)]
    /\ llPc = "ready"
    /\ llRet = FNaN

\* the sampler evaluates loglike(v)
CallLoglike ==
    /\ llPc = "ready"
    /\ llRet' = IF llCls = "Artery"
                THEN ArteryLoglike(llV, llPred, llObs)
                ELSE TissueModelLoglike(llV, llPred, llObs)
    /\ llPc' = "returned"
    /\ UNCHANGED <<llCls, llV, llPred, llObs>>
    /\ UNCHANGED <<solvars, fanvars, numvars>>

(***************************************************************************)
(* Solver orchestration: DynestySolverLegacy.run_nested_for_list, and the  *)
(* two methods of TissueModel that call it once per region.                *)
(*                                                                         *)
(* The positions of one call of run_nested_for_list:                       *)
(*   Configured  entered, before the branch on resume (lines 68-73)        *)
(*   Resuming    the sampler was restored from the checkpoint (line 74)    *)
(*   Running     inside sampler.run_nested (line 83)                       *)
(*   Completed   sampler.results was read and returned (lines 85-86)       *)
(*   Failed      an exception left the call                                *)
(***************************************************************************)
Entries == {"work", "run_nested"}

\* the checkpoint files a caller may name
Paths == {"a.save", "b.save"}
\* the index past the last region: no region's sampler
NoRegion == NRegions

\* main6.work calls run_nested_for_indexed_tac(tidx) with no checkpoint_file
\* and no resume: the defaults of the signature apply
WorkCheckpointFile == None
WorkResume == FALSE

\* run_nested_for_indexed_tac hands its own arguments on to the solver
IndexedTacCall(tidx, checkpoint_file, resume) ==
    [region |-> tidx, checkpoint_file |-> checkpoint_file, resume |-> resume]

\* the loop of run_nested hands its own arguments on to the solver for each tac
RunNestedCall(tidx, checkpoint_file, resume) ==
    [region |-> tidx, checkpoint_file |-> checkpoint_file, resume |-> resume]

\* no call of run_nested_for_list was made yet
NoCall == [region |-> -1, checkpoint_file |-> None, resume |-> FALSE]

\* no sampler yet
NoSampler ==
    [origin |-> "none", loglikelihood |-> None, prior_transform |-> None,
     ndim |-> None, sample |-> None, nlive |-> None, rstate |-> None]

\* a sampler bound to the method prior_transform itself, not to the table it returns
NewSamplerBindsMethod ==
    [origin |-> "new", loglikelihood |-> "mdl.loglike",
     prior_transform |-> "mdl.prior_transform", ndim |-> "mdl.ndim",
     sample |-> "self.sample", nlive |-> "self.nlive", rstate |-> "self.rstate"]

\* dynesty.DynamicNestedSampler(mdl.loglike, mdl.prior_transform(), ndim,
\*                              sample=self.sample, nlive=self.nlive, rstate=self.rstate)
NewSampler ==
    [origin |-> "new", loglikelihood |-> "mdl.loglike",
     prior_transform |-> "mdl.prior_transform()", ndim |-> "mdl.ndim",
     sample |-> "self.sample", nlive |-> "self.nlive", rstate |-> "self.rstate"]

\* dynesty.DynamicNestedSampler.restore(checkpoint_file)
RestoredSampler ==
    [origin |-> "restored", loglikelihood |-> None, prior_transform |-> None,
     ndim |-> None, sample |-> None, nlive |-> None, rstate |-> None]

SolInit ==
    /\ entry \in Entries
    /\ IF entry = "work"
       THEN ckptArg = WorkCheckpointFile /\ resumeArg = WorkResume
       ELSE ckptArg \in {None} \cup Paths /\ resumeArg \in BOOLEAN
    /\ files \in SUBSET Paths
    \* a file left by an earlier run holds the sampler of the region that run
    \* was fitting when it wrote the file
    /\ ckpt \in [Paths -> Regions \cup {NoRegion}]
    /\ \A f \in Paths : f \in files <=> ckpt[f] # NoRegion
    /\ owner = [r \in Regions |-> NoRegion]
    /\ sstate = [r \in Regions |-> "idle"]
    /\ spath = [r \in Regions |-> <<>>]
    /\ sampler = [r \in Regions |-> NoSampler]
    /\ built = [r \in Regions |-> 0]
    /\ resRead = [r \in Regions |-> FALSE]
    /\ fits = [r \in Regions |-> NoCall]
    /\ restarts = 0
    /\ saved = 0

SolIdle ==
    /\ entry = "work"
    /\ ckptArg = None
    /\ resumeArg = FALSE
    /\ files = {}
    /\ ckpt = [f \in Paths |-> NoRegion]
    /\ owner = [r \in Regions |-> NoRegion]
    /\ sstate = [r \in Regions |-> "idle"]
    /\ spath = [r \in Regions |-> <<>>]
    /\ sampler = [r \in Regions |-> NoSampler]
    /\ built = [r \in Regions |-> 0]
    /\ resRead = [r \in Regions |-> FALSE]
    /\ fits = [r \in Regions |-> NoCall]
    /\ restarts = 0
    /\ saved = 0

\* the fit of region r is launched: by a pool worker (work), in any order, or
\* by the loop of run_nested once the regions before r are done
LaunchFit(r) ==
    /\ sstate[r] = "idle"
    /\ entry = "run_nested" => \A q \in Regions : q < r => sstate[q] = "Completed"
    /\ fits' = [fits EXCEPT ![r] =
                 IF entry = "work"
                 THEN IndexedTacCall(r, WorkCheckpointFile, WorkResume)
                 ELSE RunNestedCall(r, ckptArg, resumeArg)]
    /\ sstate' = [sstate EXCEPT ![r] = "Configured"]
    /\ spath' = [spath EXCEPT ![r] = <<"Configured">>]
    /\ UNCHANGED <<entry, ckptArg, resumeArg, files, sampler, built, resRead,
                   restarts, saved>>
    /\ UNCHANGED <<ckpt, owner>>
    /\ UNCHANGED <<llvars, fanvars, numvars>>

\* a missing checkpoint answered by a fresh sampler that starts from scratch
ResumeMissingStartsFresh(r) ==
    /\ sstate' = [sstate EXCEPT ![r] = "Running"]
    /\ spath' = [spath EXCEPT ![r] = Append(@, "Running")]
    /\ sampler' = [sampler EXCEPT ![r] = NewSampler]
    /\ built' = [built EXCEPT ![r] = @ + 1]

\* what the branch "if resume:" does with a checkpoint that is missing: restore
\* raises, and nothing in run_nested_for_list catches it
ResumeMissing(r) ==
    /\ sstate' = [sstate EXCEPT ![r] = "Failed"]
    /\ UNCHANGED <<spath, sampler, built>>

\* resume: sampler = dynesty.DynamicNestedSampler.restore(checkpoint_file)
Restore(r) ==
    /\ sstate[r] = "Configured"
    /\ fits[r].resume
    /\ IF fits[r].checkpoint_file \in files
       THEN /\ sstate' = [sstate EXCEPT ![r] = "Resuming"]
            /\ spath' = [spath EXCEPT ![r] = Append(@, "Resuming")]
            /\ sampler' = [sampler EXCEPT ![r] = RestoredSampler]
            /\ UNCHANGED built
       ELSE ResumeMissing(r)
    /\ UNCHANGED <<entry, ckptArg, resumeArg, files, resRead, fits, restarts, saved>>
    /\ owner' = [owner EXCEPT ![r] = IF fits[r].checkpoint_file \in files
                                      THEN ckpt[fits[r].checkpoint_file] ELSE @]
    /\ UNCHANGED ckpt
    /\ UNCHANGED <<llvars, fanvars, numvars>>

\* not resume: a new sampler is constructed, then sampler.run_nested is entered
Construct(r) ==
    /\ sstate[r] = "Configured"
    /\ ~fits[r].resume
    /\ sampler' = [sampler EXCEPT ![r] = NewSampler]
    /\ built' = [built EXCEPT ![r] = @ + 1]
    /\ sstate' = [sstate EXCEPT ![r] = "Running"]
    /\ spath' = [spath EXCEPT ![r] = Append(@, "Running")]
    /\ UNCHANGED <<entry, ckptArg, resumeArg, files, resRead, fits, restarts, saved>>
    /\ owner' = [owner EXCEPT ![r] = r]
    /\ UNCHANGED ckpt
    /\ UNCHANGED <<llvars, fanvars, numvars>>

\* the restored sampler enters sampler.run_nested(resume=True)
ResumeRun(r) ==
    /\ sstate[r] = "Resuming"
    /\ sstate' = [sstate EXCEPT ![r] = "Running"]
    /\ spath' = [spath EXCEPT ![r] = Append(@, "Running")]
    /\ UNCHANGED <<entry, ckptArg, resumeArg, files, sampler, built, resRead, fits,
                   restarts, saved>>
    /\ UNCHANGED <<ckpt, owner>>
    /\ UNCHANGED <<llvars, fanvars, numvars>>

\* the running sampler writes its checkpoint, when it was given a file
WriteCheckpoint(r) ==
    /\ sstate[r] = "Running"
    /\ fits[r].checkpoint_file # None
    /\ fits[r].checkpoint_file \notin files \/ ckpt[fits[r].checkpoint_file] # owner[r]
    /\ files' = files \cup {fits[r].checkpoint_file}
    /\ UNCHANGED <<entry, ckptArg, resumeArg, sstate, spath, sampler, built, resRead,
                   fits, restarts, saved>>
    /\ ckpt' = [ckpt EXCEPT ![fits[r].checkpoint_file] = owner[r]]
    /\ UNCHANGED owner
    /\ UNCHANGED <<llvars, fanvars, numvars>>

\* sampler.run_nested returns; res = sampler.results; return res
RunReturns(r) ==
    /\ sstate[r] = "Running"
    /\ sstate' = [sstate EXCEPT ![r] = "Completed"]
    /\ spath' = [spath EXCEPT ![r] = Append(@, "Completed")]
    /\ resRead' = [resRead EXCEPT ![r] = TRUE]
    /\ UNCHANGED <<entry, ckptArg, resumeArg, files, sampler, built, fits, restarts, saved>>
    /\ UNCHANGED <<ckpt, owner>>
    /\ UNCHANGED <<llvars, fanvars, numvars>>

\* sampler.run_nested raises: the exception leaves run_nested_for_list
RunRaises(r) ==
    /\ sstate[r] = "Running"
    /\ sstate' = [sstate EXCEPT ![r] = "Failed"]
    /\ UNCHANGED <<entry, ckptArg, resumeArg, files, spath, sampler, built, resRead,
                   fits, restarts, saved>>
    /\ UNCHANGED <<ckpt, owner>>
    /\ UNCHANGED <<llvars, fanvars, numvars>>

\* run_nested: after the last tac, self.save_results(package, tag=self.TAG)
SaveResults ==
    /\ entry = "run_nested"
    /\ \A r \in Regions : sstate[r] = "Completed"
    /\ saved = 0
    /\ saved' = 1
    /\ UNCHANGED <<entry, ckptArg, resumeArg, files, sstate, spath, sampler, built,
                   resRead, fits, restarts>>
    /\ UNCHANGED <<ckpt, owner>>
    /\ UNCHANGED <<llvars, fanvars, numvars>>

\* the process dies while a fit is running and the same command is run again:
\* the files on disk stay, everything in memory is gone
Restart ==
    /\ restarts < MaxRestarts
    /\ \E r \in Regions : sstate[r] = "Running"
    /\ restarts' = restarts + 1
    /\ sstate' = [r \in Regions |-> "idle"]
    /\ spath' = [r \in Regions |-> <<>>]
    /\ sampler' = [r \in Regions |-> NoSampler]
    /\ built' = [r \in Regions |-> 0]
    /\ resRead' = [r \in Regions |-> FALSE]
    /\ fits' = [r \in Regions |-> NoCall]
    /\ UNCHANGED <<entry, ckptArg, resumeArg, files, saved>>
    /\ owner' = [r \in Regions |-> NoRegion]
    /\ UNCHANGED ckpt
    /\ UNCHANGED <<llvars, fanvars, numvars>>

SolNext ==
    \/ \E r \in Regions : LaunchFit(r)
    \/ \E r \in Regions : Restore(r)
    \/ \E r \in Regions : Construct(r)
    \/ \E r \in Regions : ResumeRun(r)
    \/ \E r \in Regions : WriteCheckpoint(r)
    \/ \E r \in Regions : RunReturns(r)
    \/ \E r \in Regions : RunRaises(r)
    \/ SaveResults
    \/ Restart

(***************************************************************************)
(* Fan-out coordinator: the __main__ blocks of main6.py, main_tz3108.py,   *)
(* main6_1.py and main4.py.  The value a fit of region r yields under a    *)
(* key of the package is written FitValue(key, r).                         *)
(***************************************************************************)
Progs == {"main6", "main_tz3108", "main6_1", "main4"}

FitValue(key, r) == <<key, r>>

\* what work() returns for region tidx, and the {} of an unrecognised tracer
Package(tidx) == [empty |-> FALSE, tidx |-> tidx]
EmptyPackage == [empty |-> TRUE, tidx |-> -1]

\* work(): main6 and main_tz3108 return {} for a tracer they do not know,
\* main6_1 and main4 raise RuntimeError; a fit that raises leaves work() too
WorkOutcome(p, tidx, known, fitRaises) ==
    IF ~known
    THEN (IF p \in {"main6", "main_tz3108"}
          THEN [st |-> "returned", pkg |-> EmptyPackage]
          ELSE [st |-> "raised", pkg |-> EmptyPackage])
    ELSE IF fitRaises
    THEN [st |-> "raised", pkg |-> EmptyPackage]
    ELSE [st |-> "returned", pkg |-> Package(tidx)]

\* results handed back in the order the workers finished
StarmapResultsByCompletion(compl, ws) ==
    [i \in 1 .. NRegions |-> ws[compl[i]].pkg]

\* p.starmap(work, [(tidx, the_data) for tidx in tindices]): the list of
\* results, in the order of the inputs
StarmapResults(compl, ws) ==
    [i \in 1 .. NRegions |-> ws[i - 1].pkg]

\* the statements of the loop body that may raise, and what they raise
AggPoints == {"asdict", "information", "quantile", "signalmodel"}
ExcKinds == {"KeyError", "Other"}
NoFault == [at |-> "none", kind |-> "none"]
AggFaults == {NoFault} \cup [at : AggPoints, kind : ExcKinds]

\* the lists that were appended to before the statement at `at` raised
AppendedBefore(at) ==
    CASE at = "tcm"         -> {}
      [] at = "asdict"      -> {"res"}
      [] at = "information" -> {"res", "logz"}
      [] at = "quantile"    -> {"res", "logz", "information"}
      [] at = "signalmodel" -> {"res", "logz", "information", "qm", "ql", "qh"}
      [] at = "none"        -> {"res", "logz", "information", "qm", "ql", "qh",
                                "rho_pred", "resid"}

\* the except clause around the loop body
Caught(p, kind) ==
    \/ p = "main6" /\ kind = "KeyError"
    \/ p = "main_tz3108"

FanInit ==
    /\ prog \in Progs
    /\ tracerKnown \in BOOLEAN
    /\ pc = "starmap"
    /\ wstatus = [r \in Regions |-> [st |-> "running", pkg |-> EmptyPackage]]
    /\ completion = <<>>
    /\ outOfOrder = FALSE
    /\ packages = <<>>
    /\ k = 1
    /\ ress = <<>> /\ logzs = <<>> /\ informations = <<>>
    /\ qms = <<>> /\ qls = <<>> /\ qhs = <<>>
    /\ rhos_pred = <<>> /\ resids = <<>>
    /\ aggRaised = {}
    /\ logged = <<>>
    /\ bundle = <<>>
    /\ saveCalls = 0
    /\ excOut = "none"

FanIdle ==
    /\ prog = "main6"
    /\ tracerKnown = TRUE
    /\ pc = "starmap"
    /\ wstatus = [r \in Regions |-> [st |-> "running", pkg |-> EmptyPackage]]
    /\ completion = <<>>
    /\ outOfOrder = FALSE
    /\ packages = <<>>
    /\ k = 1
    /\ ress = <<>> /\ logzs = <<>> /\ informations = <<>>
    /\ qms = <<>> /\ qls = <<>> /\ qhs = <<>>
    /\ rhos_pred = <<>> /\ resids = <<>>
    /\ aggRaised = {}
    /\ logged = <<>>
    /\ bundle = <<>>
    /\ saveCalls = 0
    /\ excOut = "none"

\* the worker of region r finishes, in any order among the pool's workers
WorkerFinish(r) ==
    /\ pc = "starmap"
    /\ wstatus[r].st = "running"
    /\ \E fitRaises \in BOOLEAN :
         wstatus' = [wstatus EXCEPT ![r] = WorkOutcome(prog, r, tracerKnown, fitRaises)]
    /\ completion' = Append(completion, r)
    /\ outOfOrder' = (outOfOrder \/ \E q \in Regions : q < r /\ wstatus[q].st = "running")
    /\ UNCHANGED <<prog, tracerKnown, pc, packages, k, ress, logzs, informations,
                   qms, qls, qhs, rhos_pred, resids, aggRaised, logged, bundle,
                   saveCalls, excOut>>
    /\ UNCHANGED <<llvars, solvars, numvars>>

\* starmap returns once every worker has finished: it re-raises a worker's
\* exception in the parent, or returns the list of packages; the pool is closed
StarmapReturns ==
    /\ pc = "starmap"
    /\ \A r \in Regions : wstatus[r].st # "running"
    /\ IF \E r \in Regions : wstatus[r].st = "raised"
       THEN /\ excOut' = "WorkerException"
            /\ pc' = "aborted"
            /\ UNCHANGED packages
       ELSE /\ packages' = StarmapResults(completion, wstatus)
            /\ pc' = "aggregate"
            /\ UNCHANGED excOut
    /\ completion' = <<>>
    /\ UNCHANGED <<prog, tracerKnown, wstatus, outOfOrder, k, ress, logzs,
                   informations, qms, qls, qhs, rhos_pred, resids, aggRaised,
                   logged, bundle, saveCalls>>
    /\ UNCHANGED <<llvars, solvars, numvars>>

\* list.append(value) when the statement doing it was reached
AppendIf(list, key, at, tidx) ==
    IF key \in AppendedBefore(at) THEN Append(list, FitValue(key, tidx)) ELSE list

\* one pass of "for package in packages:" over packages[k]
AggregateStep ==
    /\ pc = "aggregate"
    /\ k <= Len(packages)
    /\ \E f \in AggFaults :
         LET package == packages[k]
             fault   == IF package.empty THEN [at |-> "tcm", kind |-> "KeyError"] ELSE f
             raised  == fault.at # "none"
         IN  /\ package.empty => f = NoFault
             /\ ress' = AppendIf(ress, "res", fault.at, package.tidx)
             /\ logzs' = AppendIf(logzs, "logz", fault.at, package.tidx)
             /\ informations' = AppendIf(informations, "information", fault.at, package.tidx)
             /\ qms' = AppendIf(qms, "qm", fault.at, package.tidx)
             /\ qls' = AppendIf(qls, "ql", fault.at, package.tidx)
             /\ qhs' = AppendIf(qhs, "qh", fault.at, package.tidx)
             /\ rhos_pred' = AppendIf(rhos_pred, "rho_pred", fault.at, package.tidx)
             /\ resids' = AppendIf(resids, "resid", fault.at, package.tidx)
             /\ aggRaised' = IF raised THEN aggRaised \cup {k - 1} ELSE aggRaised
             /\ IF raised /\ ~Caught(prog, fault.kind)
                THEN /\ excOut' = fault.kind
                     /\ pc' = "aborted"
                     /\ UNCHANGED <<k, logged>>
                ELSE /\ logged' = IF raised THEN Append(logged, fault.kind) ELSE logged
                     /\ k' = k + 1
                     /\ UNCHANGED <<excOut, pc>>
    /\ UNCHANGED <<prog, tracerKnown, wstatus, completion, outOfOrder, packages,
                   bundle, saveCalls>>
    /\ UNCHANGED <<llvars, solvars, numvars>>

\* package1 = {...}: np.vstack raises ValueError on an empty list
BuildBundle ==
    /\ pc = "aggregate"
    /\ k > Len(packages)
    /\ IF qms = <<>> \/ qls = <<>> \/ qhs = <<>> \/ rhos_pred = <<>>
       THEN /\ excOut' = "ValueError"
            /\ pc' = "aborted"
            /\ UNCHANGED bundle
       ELSE /\ bundle' = << [res |-> ress, logz |-> logzs, information |-> informations,
                             qm |-> qms, ql |-> qls, qh |-> qhs,
                             rho_pred |-> rhos_pred, resid |-> resids] >>
            /\ pc' = "save"
            /\ UNCHANGED excOut
    /\ UNCHANGED <<prog, tracerKnown, wstatus, completion, outOfOrder, packages, k,
                   ress, logzs, informations, qms, qls, qhs, rhos_pred, resids,
                   aggRaised, logged, saveCalls>>
    /\ UNCHANGED <<llvars, solvars, numvars>>

\* packages[0]["tcm"].save_results(package1, tag=the_tag(...)); main_tz3108
\* calls the_tag(Nlive), whose second parameter has no default
HandOff ==
    /\ pc = "save"
    /\ IF packages[1].empty
       THEN excOut' = "KeyError" /\ pc' = "aborted" /\ UNCHANGED saveCalls
       ELSE IF prog = "main_tz3108"
       THEN excOut' = "TypeError" /\ pc' = "aborted" /\ UNCHANGED saveCalls
       ELSE saveCalls' = saveCalls + 1 /\ pc' = "done" /\ UNCHANGED excOut
    /\ UNCHANGED <<prog, tracerKnown, wstatus, completion, outOfOrder, packages, k,
                   ress, logzs, informations, qms, qls, qhs, rhos_pred, resids,
                   aggRaised, logged, bundle>>
    /\ UNCHANGED <<llvars, solvars, numvars>>

FanNext ==
    \/ \E r \in Regions : WorkerFinish(r)
    \/ StarmapReturns
    \/ AggregateStep
    \/ BuildBundle
    \/ HandOff

(***************************************************************************)
(* Rounded arithmetic of the forward models and the prior transforms.  A   *)
(* float is [kind, m, e]: the number m * 2^e with m odd (or m = e = 0),    *)
(* |m| < 2^Precision; NaN and Inf are values.  Every operation rounds its  *)
(* exact result to Precision bits, to nearest, ties to even (numpy's       *)
(* float64 does so with 53 bits).                                          *)
(***************************************************************************)
RECURSIVE Pow2(_)
Pow2(n) == IF n <= 0 THEN 1 ELSE 2 * Pow2(n - 1)

\* the number of bits of n >= 0
RECURSIVE BitLen(_)
BitLen(n) == IF n = 0 THEN 0 ELSE 1 + BitLen(n \div 2)

PNaN == [kind |-> "nan", m |-> 0, e |-> 0]
PInfinity == [kind |-> "inf", m |-> 0, e |-> 0]

\* m * 2^e with the factors 2 of m moved into the exponent
RECURSIVE Canon(_, _)
Canon(m, e) ==
    IF m = 0 THEN [kind |-> "num", m |-> 0, e |-> 0]
    ELSE IF m % 2 = 0 THEN Canon(m \div 2, e + 1)
    ELSE [kind |-> "num", m |-> m, e |-> e]

\* n / d rounded to an integer, ties to even (n >= 0, d > 0)
RoundHalfEven(n, d) ==
    LET q == n \div d
        r == n % d
    IN  IF 2 * r < d THEN q
        ELSE IF 2 * r > d THEN q + 1
        ELSE q + (q % 2)

\* the float nearest to n / d * 2^e, for n >= 0 and d > 0 (sign s is 1 or -1)
RoundRatio(s, n, d, e) ==
    LET excess == BitLen(n \div d) - Precision
    IN  IF excess <= 0 /\ n % d = 0
        THEN Canon(s * (n \div d), e)
        ELSE Canon(s * RoundHalfEven(n, d * Pow2(excess)), e + excess)

PSign(a) == IF a.m > 0 THEN 1 ELSE IF a.m < 0 THEN -1 ELSE 0

\* the float of an integer
PInt(n) == RoundRatio(IF n < 0 THEN -1 ELSE 1, Abs(n), 1, 0)

PIsNum(a) == a.kind = "num"

PNeg(a) == IF PIsNum(a) THEN [a EXCEPT !.m = -a.m] ELSE a

\* |a|
PAbs(a) == IF PIsNum(a) /\ a.m < 0 THEN PNeg(a) ELSE a

PMul(a, b) ==
    IF ~(PIsNum(a) /\ PIsNum(b)) THEN PNaN
    ELSE RoundRatio(IF PSign(a) * PSign(b) < 0 THEN -1 ELSE 1,
                    Abs(a.m) * Abs(b.m), 1, a.e + b.e)

\* a + b: an operand below half a unit in the last place of the other is absorbed
PAdd(a, b) ==
    IF ~(PIsNum(a) /\ PIsNum(b)) THEN PNaN
    ELSE IF a.m = 0 THEN b
    ELSE IF b.m = 0 THEN a
    ELSE IF a.e - b.e > 2 * Precision + 1 THEN a
    ELSE IF b.e - a.e > 2 * Precision + 1 THEN b
    ELSE LET lo  == IF a.e < b.e THEN a.e ELSE b.e
             sum == a.m * Pow2(a.e - lo) + b.m * Pow2(b.e - lo)
         IN  RoundRatio(IF sum < 0 THEN -1 ELSE 1, Abs(sum), 1, lo)

PSub(a, b) == PAdd(a, PNeg(b))

\* a / b: 0/0 is NaN, x/0 is Inf
PDiv(a, b) ==
    IF ~(PIsNum(a) /\ PIsNum(b)) THEN PNaN
    ELSE IF b.m = 0 THEN (IF a.m = 0 THEN PNaN ELSE PInfinity)
    ELSE IF a.m = 0 THEN a
    ELSE LET up == 2 * Precision + 2
             n  == Abs(a.m) * Pow2(up)
             d  == Abs(b.m)
             x  == BitLen(n \div d) - Precision
         IN  Canon((IF PSign(a) * PSign(b) < 0 THEN -1 ELSE 1)
                       * RoundHalfEven(n, d * Pow2(x)),
                   a.e - b.e - up + x)

\* a <= b, false as soon as one side is not a number
PLeq(a, b) == PIsNum(a) /\ PIsNum(b) /\ PSign(PSub(a, b)) <= 0

\* the float of the decimal n / d
PDec(n, d) == PDiv(PInt(n), PInt(d))

P0 == PInt(0)
P1 == PInt(1)

(***************************************************************************)
(* Prior transforms: Artery.prior_transform (the selection by tracer), the *)
(* tables Artery.prior_transform_co / _oo / _default and                   *)
(* Boxcar.prior_transform, and the mixture weights that                    *)
(* Artery.solution_2bolus / _3bolus / _4bolus derive from the fractions.   *)
(***************************************************************************)
\* len(self.labels)
Ndim == Len(<<"t_0", "tau_2", "tau_3", "alpha - 1", "1/beta", "p", "dp_2", "dp_3",
              "1/gamma", "f_2", "f_3", "f_ss", "A", "sigma">>)

\* positions of the fractions in v (v[9], v[10], v[11] in the source's 0-based index)
IdxF2 == Ndim - 4
IdxF3 == Ndim - 3
IdxFss == Ndim - 2

\* Artery.sigma()
ArterySigma == PDec(1, 10)

\* one line "v[i] = u[i] * scale + offset" per coordinate, in the order written
PriorTransformCo ==
    [scale  |-> << PInt(60), PInt(60), PInt(60), PInt(20), PInt(30), PDec(975, 100),
                   PInt(10), PInt(10), PInt(300), PDec(75, 100), PDec(75, 100),
                   PDec(75, 100), PInt(4), ArterySigma >>,
     offset |-> << P0, P0, P0, P0, PInt(1), PDec(25, 100), PInt(-10), PInt(-10),
                   PDec(1, 100), PDec(25, 100), P0, P0, PDec(5, 10), P0 >>]

PriorTransformOo ==
    [scale  |-> << PInt(60), PInt(60), PInt(60), PInt(20), PInt(30), PDec(975, 100),
                   PInt(10), PInt(10), PInt(300), PDec(75, 100), PDec(5, 10),
                   PDec(25, 100), PInt(4), ArterySigma >>,
     offset |-> << P0, P0, P0, P0, PInt(1), PDec(25, 100), PInt(-10), PInt(-10),
                   PDec(1, 100), PDec(25, 100), P0, P0, PDec(5, 10), P0 >>]

\* a default table that leaves sigma at 0 whatever u is
PriorTransformDefaultFlatSigma ==
    [scale  |-> << PInt(60), PInt(60), PInt(60), PInt(20), PInt(30), PDec(975, 100),
                   PInt(10), PInt(10), PInt(300), PDec(5, 10), PDec(25, 100),
                   PDec(25, 100), PInt(4), P0 >>,
     offset |-> << P0, P0, P0, P0, PInt(1), PDec(25, 100), PInt(-10), PInt(-10),
                   PDec(1, 100), P0, P0, P0, PDec(5, 10), P0 >>]

PriorTransformDefault ==
    [scale  |-> << PInt(60), PInt(60), PInt(60), PInt(20), PInt(30), PDec(975, 100),
                   PInt(10), PInt(10), PInt(300), PDec(5, 10), PDec(25, 100),
                   PDec(25, 100), PInt(4), ArterySigma >>,
     offset |-> << P0, P0, P0, P0, PInt(1), PDec(25, 100), PInt(-10), PInt(-10),
                   PDec(1, 100), P0, P0, P0, PDec(5, 10), P0 >>]

BoxcarPriorTransform ==
    [scale  |-> << PInt(30), PInt(20), PInt(20), PInt(5), PInt(10), PInt(3),
                   PDec(5, 100), PDec(5, 100), PInt(100), PDec(75, 100), PDec(25, 100),
                   PDec(125, 1000), PInt(3), PDec(2, 100) >>,
     offset |-> << PInt(5), PInt(5), PInt(5), P0, PDec(1, 10), PDec(5, 10),
                   PDec(-25, 1000), PDec(-25, 1000), PInt(5), PDec(25, 100), P0, P0,
                   PInt(1), P0 >>]

TableNames == {"co", "oo", "default", "boxcar"}

Table(name) ==
    CASE name = "co"      -> PriorTransformCo
      [] name = "oo"      -> PriorTransformOo
      [] name = "default" -> PriorTransformDefault
      [] name = "boxcar"  -> BoxcarPriorTransform

\* the tags self.tracer may hold
Tracers == {"co", "oc", "oo", "ho", "fdg", "CO", "", None}

\* a selection that knows "co" and "oo" only
SelectKnowsTwo(tracer) ==
    CASE tracer = "co" -> "co"
      [] tracer = "oo" -> "oo"
      [] OTHER         -> "default"

\* {"co": ..._co, "oc": ..._co, "oo": ..._oo}.get(self.tracer, ..._default)
ArteryPriorTransform(tracer) ==
    CASE tracer = "co" -> "co"
      [] tracer = "oc" -> "co"
      [] tracer = "oo" -> "oo"
      [] OTHER         -> "default"

\* v = u, then the lines of the table from line i on: each reads and writes the
\* one array that u and v both name
RECURSIVE ApplyLines(_, _, _)
ApplyLines(arr, tab, i) ==
    IF i > Len(tab.scale) THEN arr
    ELSE ApplyLines([arr EXCEPT ![i] = PAdd(PMul(arr[i], tab.scale[i]), tab.offset[i])],
                    tab, i + 1)

\* f_1 = 1 - f_ss; the weights of solution_2bolus, in the order <<f_1, f_ss>>
Weights2bolus(f_ss) == << PSub(P1, f_ss), f_ss >>

\* the weights of solution_3bolus, in the order <<f_1_, f_2_, f_ss_>>
Weights3bolus(f_2, f_ss) ==
    << PMul(PSub(P1, f_ss), PSub(P1, f_2)),
       f_2,
       PMul(f_ss, PSub(P1, f_2)) >>

\* weights in which the second bolus does not give way to the third
Weights4bolusUnchained(f_2, f_3, f_ss) ==
    << PMul(PMul(PSub(P1, f_ss), PSub(P1, f_2)), PSub(P1, f_3)),
       f_2,
       f_3,
       PMul(PMul(f_ss, PSub(P1, f_2)), PSub(P1, f_3)) >>

\* the weights of solution_4bolus, in the order <<f_1_, f_2_, f_3_, f_ss_>>
Weights4bolus(f_2, f_3, f_ss) ==
    << PMul(PMul(PSub(P1, f_ss), PSub(P1, f_2)), PSub(P1, f_3)),
       PMul(f_2, PSub(P1, f_3)),
       f_3,
       PMul(PMul(f_ss, PSub(P1, f_2)), PSub(P1, f_3)) >>

\* the coordinates of the unit hypercube the model draws from
UVals == {P0, PDec(1, 8), PDec(3, 8), PDec(1, 2), PDec(7, 8), P1}

NoVector == <<>>

PTInit ==
    /\ ptCls \in {"Artery", "Boxcar"}
    /\ ptTracer \in Tracers
    /\ \E c, a, b, d \in UVals :
         ptDrawn = [i \in 1 .. Ndim |->
                       IF i = IdxF2 THEN a ELSE IF i = IdxF3 THEN b
                       ELSE IF i = IdxFss THEN d ELSE c]
    /\ ptU = ptDrawn
    /\ ptPc = "ready"
    /\ ptTable = "none"
    /\ ptV = NoVector
    /\ ptSameObject = FALSE
    /\ ptWeights = <<>>

PTIdle ==
    /\ ptCls = "Artery"
    /\ ptTracer = "co"
    /\ ptDrawn = [i \in 1 .. Ndim |-> P0]
    /\ ptU = ptDrawn
    /\ ptPc = "ready"
    /\ ptTable = "none"
    /\ ptV = NoVector
    /\ ptSameObject = FALSE
    /\ ptWeights = <<>>

\* mdl.prior_transform() on an Artery: the table is chosen by self.tracer
SelectPriorTransform ==
    /\ ptPc = "ready"
    /\ ptCls = "Artery"
    /\ ptTable' = ArteryPriorTransform(ptTracer)
    /\ ptPc' = "selected"
    /\ UNCHANGED <<ptCls, ptTracer, ptDrawn, ptU, ptV, ptSameObject, ptWeights>>
    /\ UNCHANGED <<llvars, solvars, fanvars, qvars, bovars, bxvars, extvars>>

\* the sampler calls the table on u; Boxcar.prior_transform is its own table
CallPriorTransform ==
    /\ \/ ptPc = "selected"
       \/ ptPc = "ready" /\ ptCls = "Boxcar"
    /\ LET name == IF ptCls = "Boxcar" THEN "boxcar" ELSE ptTable
           arr  == ApplyLines(ptU, Table(name), 1)
       IN  /\ ptU' = arr
           /\ ptV' = arr
           /\ ptTable' = name
    /\ ptSameObject' = TRUE
    /\ ptPc' = "returned"
    /\ UNCHANGED <<ptCls, ptTracer, ptDrawn, ptWeights>>
    /\ UNCHANGED <<llvars, solvars, fanvars, qvars, bovars, bxvars, extvars>>

\* the forward model takes f_2, f_3, f_ss from v and forms its mixture weights
MixtureWeights ==
    /\ ptPc = "returned"
    /\ ptWeights' = << Weights2bolus(ptV[IdxFss]),
                       Weights3bolus(ptV[IdxF2], ptV[IdxFss]),
                       Weights4bolus(ptV[IdxF2], ptV[IdxF3], ptV[IdxFss]) >>
    /\ ptPc' = "mixed"
    /\ UNCHANGED <<ptCls, ptTracer, ptDrawn, ptU, ptTable, ptV, ptSameObject>>
    /\ UNCHANGED <<llvars, solvars, fanvars, qvars, bovars, bxvars, extvars>>

PTNext == SelectPriorTransform \/ CallPriorTransform \/ MixtureWeights

(***************************************************************************)
(* Bolus solutions: Artery.solution_1bolus, solution_ss, solution_2bolus,  *)
(* solution_3bolus and solution_4bolus on a time grid.  Rates are in the   *)
(* unit that makes exp(-1) one half, and the model evaluates np.power and  *)
(* np.exp at whole-number exponents only, where they are exact up to       *)
(* rounding.                                                               *)
(***************************************************************************)
\* the whole number a float holds
IntValue(x) == x.m * Pow2(x.e)

\* np.power(x, n) for a whole number n; np.power(0, 0) is 1
RECURSIVE PowerN(_, _)
PowerN(x, n) ==
    IF n = 0 THEN P1
    ELSE IF n < 0 THEN PDiv(P1, PowerN(x, -n))
    ELSE PMul(x, PowerN(x, n - 1))

\* np.power(x, y): for a y that is not whole the model evaluates it at the
\* bases 0 and 1 only, where it is exact (0^y = 0 for y > 0, 1^y = 1)
Power(x, y) ==
    IF ~(PIsNum(x) /\ PIsNum(y)) THEN PNaN
    ELSE IF y.e >= 0 THEN PowerN(x, IntValue(y))
    ELSE IF x = P1 THEN P1
    ELSE IF x = P0 /\ y.m > 0 THEN P0
    ELSE PNaN

\* np.exp(y) for a whole number y of rate units
Exp(y) == IF PIsNum(y) THEN Canon(1, IntValue(y)) ELSE PNaN

\* x.clip(min=0), element by element; NaN stays NaN
Clip0(x) == IF PIsNum(x) /\ x.m < 0 THEN P0 ELSE x

\* np.max(rho): NaN as soon as one element is NaN
RECURSIVE MaxOf(_)
MaxOf(rho) ==
    IF Len(rho) = 1 THEN rho[1]
    ELSE LET r == MaxOf(Tail(rho))
         IN  IF ~PIsNum(rho[1]) THEN rho[1]
             ELSE IF ~PIsNum(r) THEN r
             ELSE IF PLeq(r, rho[1]) THEN rho[1] ELSE r

\* max(0.25, x) of Python: the first argument unless the second is greater
PyMax(a, b) == IF PLeq(b, a) \/ ~PIsNum(a) \/ ~PIsNum(b) THEN a ELSE b

\* w * rho and rho1 + rho2, element by element
Scaled(w, rho) == [i \in DOMAIN rho |-> PMul(w, rho[i])]
Summed(rho1, rho2) == [i \in DOMAIN rho1 |-> PAdd(rho1[i], rho2[i])]

\* t_ = (t - t_0).clip(min=0); rho = t_^a * exp(-(b t_)^p); rho.clip(min=0);
\* rho / np.max(rho)
solution_1bolus(t, t_0, a, b, p) ==
    LET t_  == [i \in DOMAIN t |-> Clip0(PSub(t[i], t_0))]
        rho == [i \in DOMAIN t |->
                   Clip0(PMul(Power(t_[i], a), Exp(PNeg(Power(PMul(b, t_[i]), p)))))]
    IN  [i \in DOMAIN t |-> PDiv(rho[i], MaxOf(rho))]

\* t_ = t - t0; rho = 1 - exp(-g t_); rho.clip(min=0); rho / np.max(rho)
solution_ss(t, t0, g) ==
    LET t_  == [i \in DOMAIN t |-> PSub(t[i], t0)]
        rho == [i \in DOMAIN t |-> Clip0(PSub(P1, Exp(PNeg(PMul(g, t_[i])))))]
    IN  [i \in DOMAIN t |-> PDiv(rho[i], MaxOf(rho))]

solution_2bolus(t, t_0, a, b, p, g, f_ss) ==
    LET w == Weights2bolus(f_ss)
    IN  Summed(Scaled(w[1], solution_1bolus(t, t_0, a, b, p)),
               Scaled(w[2], solution_ss(t, t_0, g)))

\* the arrival time and the shape parameter p that solution_3bolus passes to
\* each of its calls of solution_1bolus
Bolus3Calls(t_0, tau_2, p, dp_2) ==
    <<[t_0 |-> t_0, p |-> p],
      [t_0 |-> PAdd(t_0, tau_2), p |-> PyMax(PDec(25, 100), PAdd(p, dp_2))]>>

solution_3bolus(t, t_0, tau_2, a, b, p, dp_2, g, f_2, f_ss) ==
    LET w == Weights3bolus(f_2, f_ss)
        c == Bolus3Calls(t_0, tau_2, p, dp_2)
    IN  Summed(Summed(Scaled(w[1], solution_1bolus(t, c[1].t_0, a, b, c[1].p)),
                      Scaled(w[2], solution_1bolus(t, c[2].t_0, a, b, c[2].p))),
               Scaled(w[3], solution_ss(t, t_0, g)))

\* calls of solution_1bolus whose shape parameter is p plus the deltas as they are
Bolus4CallsUnfloored(t_0, tau_2, tau_3, p, dp_2, dp_3) ==
    <<[t_0 |-> t_0, p |-> p],
      [t_0 |-> PAdd(t_0, tau_2), p |-> PAdd(p, dp_2)],
      [t_0 |-> PAdd(PAdd(t_0, tau_2), tau_3), p |-> PAdd(PAdd(p, dp_2), dp_3)]>>

\* the arrival time and the shape parameter p that solution_4bolus passes to
\* each of its calls of solution_1bolus
Bolus4Calls(t_0, tau_2, tau_3, p, dp_2, dp_3) ==
    <<[t_0 |-> t_0, p |-> p],
      [t_0 |-> PAdd(t_0, tau_2), p |-> PyMax(PDec(25, 100), PAdd(p, dp_2))],
      [t_0 |-> PAdd(PAdd(t_0, tau_2), tau_3),
       p |-> PyMax(PDec(25, 100), PAdd(PAdd(p, dp_2), dp_3))]>>

solution_4bolus(t, t_0, tau_2, tau_3, a, b, p, dp_2, dp_3, g, f_2, f_3, f_ss) ==
    LET w == Weights4bolus(f_2, f_3, f_ss)
        c == Bolus4Calls(t_0, tau_2, tau_3, p, dp_2, dp_3)
    IN  Summed(Summed(Summed(
            Scaled(w[1], solution_1bolus(t, c[1].t_0, a, b, c[1].p)),
            Scaled(w[2], solution_1bolus(t, c[2].t_0, a, b, c[2].p))),
            Scaled(w[3], solution_1bolus(t, c[3].t_0, a, b, c[3].p))),
            Scaled(w[4], solution_ss(t, t_0, g)))

\* the parameter values the model draws, inside the ranges of the prior tables
DelayVals == {P0, P1, PInt(2)}
ShapeVals == {P0, P1}
PowerVals == {P1, PInt(2)}
FractionVals == {P0, PDec(1, 4)}
AmplitudeVals == {PDec(1, 2), PInt(2)}
DeltaVals == {P0, PInt(-1)}

\* every value (b * t_)^p that a call of solution_1bolus with a shape
\* parameter p that is not whole takes is at the base 0 or 1
ExactPowers(t, b, calls) ==
    \A c \in DOMAIN calls : calls[c].p.e < 0 =>
        \A i \in DOMAIN t :
            PMul(b, Clip0(PSub(t[i], calls[c].t_0))) \in {P0, P1}

NoCurve == <<>>

BoInit ==
    /\ boT = [i \in 1 .. (TLast + 1) |-> PInt(i - 1)]
    /\ boV \in [t_0 : DelayVals, tau_2 : DelayVals, tau_3 : {P0, PInt(2)},
                a : ShapeVals, b : {P1}, p : PowerVals, dp_2 : DeltaVals,
                dp_3 : DeltaVals, g : {P1}, f_2 : FractionVals, f_3 : FractionVals,
                f_ss : FractionVals, A : AmplitudeVals]
    /\ ExactPowers(boT, boV.b, Bolus4Calls(boV.t_0, boV.tau_2, boV.tau_3,
                                           boV.p, boV.dp_2, boV.dp_3))
    /\ boPc = "ready"
    /\ boRho1 = NoCurve
    /\ boMix = NoCurve
    /\ boCalls = <<>>

BoIdle ==
    /\ boT = <<>>
    /\ boV = [t_0 |-> P0, tau_2 |-> P0, tau_3 |-> P0, a |-> P0, b |-> P1, p |-> P1,
              dp_2 |-> P0, dp_3 |-> P0, g |-> P1, f_2 |-> P0, f_3 |-> P0,
              f_ss |-> P0, A |-> P1]
    /\ boPc = "ready"
    /\ boRho1 = NoCurve
    /\ boMix = NoCurve
    /\ boCalls = <<>>

\* Artery.solution_1bolus(t, t_0, a, b, p)
CallSolution1bolus ==
    /\ boPc = "ready"
    /\ boRho1' = solution_1bolus(boT, boV.t_0, boV.a, boV.b, boV.p)
    /\ boPc' = "bolus"
    /\ UNCHANGED <<boT, boV, boMix, boCalls>>
    /\ UNCHANGED <<llvars, solvars, fanvars, qvars, ptvars, bxvars, extvars>>

\* the four-bolus mixture, scaled by the amplitude: A * solution_4bolus(...)
FourBolusMixture ==
    /\ boPc = "bolus"
    /\ boMix' = Scaled(boV.A, solution_4bolus(boT, boV.t_0, boV.tau_2, boV.tau_3,
                                              boV.a, boV.b, boV.p, boV.dp_2, boV.dp_3,
                                              boV.g, boV.f_2, boV.f_3, boV.f_ss))
    /\ boCalls' = Bolus4Calls(boV.t_0, boV.tau_2, boV.tau_3, boV.p, boV.dp_2, boV.dp_3)
    /\ boPc' = "mixed"
    /\ UNCHANGED <<boT, boV, boRho1>>
    /\ UNCHANGED <<llvars, solvars, fanvars, qvars, ptvars, bxvars, extvars>>

\* Artery.solution_3bolus(t, t_0, tau_2, a, b, p, dp_2, g, f_2, f_ss)
ThreeBolusMixture ==
    /\ boPc = "bolus"
    /\ boMix' = solution_3bolus(boT, boV.t_0, boV.tau_2, boV.a, boV.b, boV.p,
                                boV.dp_2, boV.g, boV.f_2, boV.f_ss)
    /\ boCalls' = Bolus3Calls(boV.t_0, boV.tau_2, boV.p, boV.dp_2)
    /\ boPc' = "mixed3"
    /\ UNCHANGED <<boT, boV, boRho1>>
    /\ UNCHANGED <<llvars, solvars, fanvars, qvars, ptvars, bxvars, extvars>>

BoNext == CallSolution1bolus \/ FourBolusMixture \/ ThreeBolusMixture

(***************************************************************************)
(* Boxcar sampling: Boxcar.apply_boxcar, which averages a dense curve over *)
(* the frames of a measurement, and Boxcar.signalmodel, which calls it.    *)
(* Sample i of the dense curve (counted from 0, as the code counts) is the *)
(* element i + 1 of the sequence that stands for it.                       *)
(***************************************************************************)
\* int(x) of a finite float: the whole number nearest to x towards zero
PyInt(x) ==
    IF x.e >= 0 THEN x.m * Pow2(x.e)
    ELSE IF x.m >= 0 THEN x.m \div Pow2(-x.e)
    ELSE -((-x.m) \div Pow2(-x.e))

\* the position a slice bound i takes in a sequence of n elements: a negative
\* bound counts from the end, and the result is clipped to 0 .. n
SliceBound(i, n) ==
    LET j == IF i < 0 THEN i + n ELSE i
    IN  IF j < 0 THEN 0 ELSE IF j > n THEN n ELSE j

\* vec[lo:hi+1], the slice that takes the sample at hi too
PySliceInclusive(vec, lo, hi) ==
    SubSeq(vec, SliceBound(lo, Len(vec)) + 1, SliceBound(hi + 1, Len(vec)))

\* vec[lo:hi]
PySlice(vec, lo, hi) ==
    SubSeq(vec, SliceBound(lo, Len(vec)) + 1, SliceBound(hi, Len(vec)))

\* the sum of a sequence of floats, added from left to right
RECURSIVE SumOf(_)
SumOf(s) == IF s = <<>> THEN P0 ELSE PAdd(SumOf(SubSeq(s, 1, Len(s) - 1)), s[Len(s)])

\* a mean that is 0 on an empty slice
NpMeanEmptyZero(s) == IF s = <<>> THEN P0 ELSE PDiv(SumOf(s), PInt(Len(s)))

\* np.mean(s): the mean of an empty slice is NaN
NpMean(s) == IF s = <<>> THEN PNaN ELSE PDiv(SumOf(s), PInt(Len(s)))

\* the builtin max(rho) of a non-empty array: the first element, replaced by
\* every later element that compares greater
RECURSIVE BuiltinMax(_)
BuiltinMax(rho) ==
    IF Len(rho) = 1 THEN rho[1]
    ELSE PyMax(BuiltinMax(SubSeq(rho, 1, Len(rho) - 1)), rho[Len(rho)])

\* times0 = timesMid - taus / 2 and timesF = timesMid + taus / 2
Times0(timesMid, taus) ==
    [idx \in DOMAIN timesMid |-> PSub(timesMid[idx], PDiv(taus[idx], PInt(2)))]
TimesF(timesMid, taus) ==
    [idx \in DOMAIN timesMid |-> PAdd(timesMid[idx], PDiv(taus[idx], PInt(2)))]

\* vec_sampled[idx] = np.mean(vec[int(t0):int(tF)]) for every frame idx
apply_boxcar(vec, timesMid, taus) ==
    [idx \in DOMAIN timesMid |->
        NpMean(PySlice(vec, PyInt(Times0(timesMid, taus)[idx]),
                            PyInt(TimesF(timesMid, taus)[idx])))]

\* the number of parameters of solution_3bolus
Solution3bolusArity == 10

\* solution_3bolus applied to a tuple of positional arguments
Apply3bolus(args) ==
    solution_3bolus(args[1], args[2], args[3], args[4], args[5], args[6],
                    args[7], args[8], args[9], args[10])

\* the dense time grid of a measurement: the whole seconds 0, 1, ..., TLast
data2t == [i \in 1 .. (TLast + 1) |-> PInt(i - 1)]

\* the positional arguments signalmodel passes to solution_3bolus
SignalmodelArgs(v) ==
    <<data2t, v[1], v[2], v[3], v[4], PDiv(P1, v[5]), v[6], v[7], v[8],
      PDiv(P1, v[9]), v[10], v[11], v[12]>>

\* rho = apply_boxcar(rho_, data); A_qs = 1 / max(rho);
\* signal = A_qs * rho; ideal = A_qs * rho_
Renormalised(rho_, timesMid, taus) ==
    LET rho  == apply_boxcar(rho_, timesMid, taus)
        A_qs == PDiv(P1, BuiltinMax(rho))
    IN  [signal |-> Scaled(A_qs, rho), ideal |-> Scaled(A_qs, rho_), t_ideal |-> data2t]

\* the values of the samples of a dense curve, of the mid-frame times and of
\* the frame durations the model draws
CurveVals == {P0, PInt(3)}
MidVals == {PDec(1, 2), P1, PDec(3, 2), PInt(2), PDec(5, 2), PInt(3), PInt(4)}
TauVals == {PDec(1, 2), P1, PInt(2)}

\* parameter vectors inside the ranges of Boxcar.prior_transform
SignalVs ==
    {<<PInt(5), PInt(5), PInt(5), P1, P1, P1, P0, P0, PInt(8),
       PDec(1, 4), PDec(1, 4), PDec(1, 8), A, PDec(1, 64)>> : A \in {P1, PInt(2), PInt(4)}}

NoSignal == [signal |-> <<>>, ideal |-> <<>>, t_ideal |-> <<>>]

\* frames in the order of their mid-frame times, none starting before time 0
BxInit ==
    /\ bxVec \in [1 .. (TLast + 1) -> CurveVals]
    /\ bxTimesMid \in [1 .. NFrames -> MidVals]
    /\ bxTaus \in [1 .. NFrames -> TauVals]
    /\ \A i \in 1 .. (NFrames - 1) :
           PLeq(bxTimesMid[i], bxTimesMid[i + 1]) /\ bxTimesMid[i] # bxTimesMid[i + 1]
    /\ \A i \in 1 .. NFrames : PLeq(P0, Times0(bxTimesMid, bxTaus)[i])
    /\ bxV \in SignalVs
    /\ bxPc = "ready"
    /\ bxSampled = NoCurve
    /\ bxRet = NoSignal
    /\ bxRaised = "none"
    /\ bxLoglike = "none"

BxIdle ==
    /\ bxVec = <<>>
    /\ bxTimesMid = <<>>
    /\ bxTaus = <<>>
    /\ bxV = <<>>
    /\ bxPc = "ready"
    /\ bxSampled = NoCurve
    /\ bxRet = NoSignal
    /\ bxRaised = "none"
    /\ bxLoglike = "none"

\* Boxcar.apply_boxcar(vec, data)
ApplyBoxcar ==
    /\ bxPc = "ready"
    /\ bxSampled' = apply_boxcar(bxVec, bxTimesMid, bxTaus)
    /\ bxPc' = "sampled"
    /\ UNCHANGED <<bxVec, bxTimesMid, bxTaus, bxV, bxRet, bxRaised, bxLoglike>>
    /\ UNCHANGED <<llvars, solvars, fanvars, qvars, ptvars, bovars, extvars>>

\* what a call signalmodel(data) does: the call of solution_3bolus raises
\* TypeError when the number of its arguments is not the number of its
\* parameters, otherwise the three curves are returned
SignalmodelOutcome(v, timesMid, taus) ==
    LET args == SignalmodelArgs(v)
    IN  IF Len(args) # Solution3bolusArity
        THEN [raised |-> "TypeError", ret |-> NoSignal]
        ELSE [raised |-> "none",
              ret |-> Renormalised(Scaled(v[13], Apply3bolus(args)), timesMid, taus)]

\* Boxcar.signalmodel(data)
Signalmodel ==
    /\ bxPc = "ready"
    /\ LET out == SignalmodelOutcome(bxV, bxTimesMid, bxTaus)
       IN  /\ bxRaised' = out.raised
           /\ bxRet' = out.ret
           /\ bxPc' = IF out.raised = "none" THEN "returned" ELSE "raised"
    /\ UNCHANGED <<bxVec, bxTimesMid, bxTaus, bxV, bxSampled, bxLoglike>>
    /\ UNCHANGED <<llvars, solvars, fanvars, qvars, ptvars, bovars, extvars>>

\* the number of values signalmodel returns, and the number of names
\* "rho_pred, _ = ..." unpacks them into
SignalmodelReturns == 3
LoglikeUnpacks == 2

\* Boxcar.loglike(v): an exception of signalmodel leaves loglike; unpacking
\* raises ValueError when the counts differ; otherwise the value returned is
\* the Gaussian log-likelihood or, when that is not finite, -1e300
BoxcarLoglike ==
    /\ bxPc = "ready"
    /\ LET out == SignalmodelOutcome(bxV, bxTimesMid, bxTaus)
       IN  IF out.raised # "none"
           THEN bxRaised' = out.raised /\ UNCHANGED bxLoglike
           ELSE IF SignalmodelReturns # LoglikeUnpacks
           THEN bxRaised' = "ValueError" /\ UNCHANGED bxLoglike
           ELSE bxLoglike' = "number" /\ UNCHANGED bxRaised
    /\ bxPc' = "scored"
    /\ UNCHANGED <<bxVec, bxTimesMid, bxTaus, bxV, bxSampled, bxRet>>
    /\ UNCHANGED <<llvars, solvars, fanvars, qvars, ptvars, bovars, extvars>>

BxNext == ApplyBoxcar \/ Signalmodel \/ BoxcarLoglike

(***************************************************************************)
(* Boxcar fits in one process: the module globals RHO, TAUS and TIMES_MID  *)
(* of Boxcar.py, which Boxcar.__init__ assigns and the static methods      *)
(* Boxcar.data and Boxcar.loglike read.  The curve and the timing of       *)
(* measurement m are written Img(m), Taus(m) and TimesMid(m).              *)
(***************************************************************************)
BoxcarFits == 1 .. NFits
Measurements == {"m1", "m2", "m3"}

Img(m) == <<"img", m>>
Taus(m) == <<"taus", m>>
TimesMid(m) == <<"timesMid", m>>

NothingSeen == [rho |-> <<>>, taus |-> <<>>, timesMid |-> <<>>]

BgInit ==
    /\ bgMeas \in [BoxcarFits -> Measurements]
    /\ bgBuilt = {}
    /\ bgRHO = <<>> /\ bgTAUS = <<>> /\ bgTIMES_MID = <<>>
    /\ bgSeen = [f \in BoxcarFits |-> NothingSeen]

BgIdle ==
    /\ bgMeas = <<>>
    /\ bgBuilt = {}
    /\ bgRHO = <<>> /\ bgTAUS = <<>> /\ bgTIMES_MID = <<>>
    /\ bgSeen = <<>>

\* Boxcar(input_func_measurement): global RHO, TAUS, TIMES_MID are assigned
\* from the measurement of the fit being constructed
BoxcarConstruct(f) ==
    /\ f \notin bgBuilt
    /\ bgBuilt' = bgBuilt \cup {f}
    /\ bgRHO' = Img(bgMeas[f])
    /\ bgTAUS' = Taus(bgMeas[f])
    /\ bgTIMES_MID' = TimesMid(bgMeas[f])
    /\ UNCHANGED <<bgMeas, bgSeen>>
    /\ UNCHANGED <<llvars, solvars, fanvars, qvars, ptvars, bovars, bxvars, obvars, tmvars>>

\* the globals as they are read by a call made for fit f
GlobalsRead == [rho |-> bgRHO, taus |-> bgTAUS, timesMid |-> bgTIMES_MID]

\* the measurement bound to the object of fit f, whatever the globals hold
OwnRead(f) ==
    [rho |-> Img(bgMeas[f]), taus |-> Taus(bgMeas[f]), timesMid |-> TimesMid(bgMeas[f])]

\* a call of Boxcar.data(v) or Boxcar.loglike(v) made while fit f runs: the
\* static methods take the timing and the curve from the module globals
BoxcarUse(f) ==
    /\ f \in bgBuilt
    /\ bgSeen' = [bgSeen EXCEPT ![f] = GlobalsRead]
    /\ UNCHANGED <<bgMeas, bgBuilt, bgRHO, bgTAUS, bgTIMES_MID>>
    /\ UNCHANGED <<llvars, solvars, fanvars, qvars, ptvars, bovars, bxvars, obvars, tmvars>>

BgNext == \E f \in BoxcarFits : BoxcarConstruct(f) \/ BoxcarUse(f)

(***************************************************************************)
(* Construction of the data objects (InputFuncData, RadialArteryData) and  *)
(* of Artery, and their input_func_measurement property.  An instance is   *)
(* its set of attribute names; a name written as self.__x inside class C   *)
(* is stored as _C__x, a name passed to hasattr as a string is not         *)
(* rewritten.                                                              *)
(***************************************************************************)
MaxReads == 2

ObClasses == {"InputFuncData", "RadialArteryData", "Artery"}
DataClasses == {"InputFuncData", "RadialArteryData"}
DictKeys == {"input_func_fqfn", "kernel_fqfn", "nlive"}

\* the file names an Artery is given: with a tracer tag ("_trc-co_"), with an
\* empty one ("_trc-_"), with none, or a dict in place of a file name
NameKinds == {"tagged", "emptytag", "untagged", "dict"}
TracerArgs == {None, "", "co"}

\* re.findall(r"_trc-(.*?)_", name)
FindAll(name) ==
    CASE name = "tagged"   -> <<"co">>
      [] name = "emptytag" -> <<"">>
      [] OTHER             -> <<>>

\* "not self.tracer"
Falsy(tracer) == tracer \in {None, ""}

\* the keys the constructor of a data class asserts, in the order of the code
RequiredKeys(cls) ==
    IF cls = "RadialArteryData" THEN <<"input_func_fqfn", "kernel_fqfn">>
    ELSE <<"input_func_fqfn">>

\* the keys the constructor subscripts data_dict with, in the order of the code
SubscriptedKeys(cls) ==
    IF cls = "RadialArteryData" THEN <<"input_func_fqfn", "kernel_fqfn">>
    ELSE <<"input_func_fqfn">>

\* dict.get: a missing key is answered with None
DictGet(keys, key) == FALSE

\* data_dict[key] raises KeyError when the key is missing
DictSubscript(keys, key) == key \notin keys

\* self.__input_func_measurement, written inside class cls
Mangled(cls) == "_" \o cls \o "__input_func_measurement"

\* the exception that leaves the constructor of a data class, or None
DataInitOutcome(cls, keys, asserts) ==
    LET req == RequiredKeys(cls)
        sub == SubscriptedKeys(cls)
    IN  IF asserts /\ \E i \in DOMAIN req : req[i] \notin keys
        THEN "AssertionError"
        ELSE IF \E i \in DOMAIN sub : DictSubscript(keys, sub[i])
             THEN "KeyError"
             ELSE None

\* the exception that leaves Artery.__init__, or None
ArteryInitOutcome(tracer, name, isfile, asserts) ==
    IF name # "dict" /\ ~isfile
    THEN IF asserts THEN "AssertionError" ELSE "FileNotFoundError"
    ELSE IF ~Falsy(tracer) THEN None
    ELSE IF name = "dict" THEN "TypeError"
    ELSE IF FindAll(name) = <<>>
         THEN IF asserts THEN "AssertionError" ELSE "IndexError"
         ELSE None

\* self.tracer after Artery.__init__ returned
ArteryTracer(tracer, name) == IF Falsy(tracer) THEN FindAll(name)[1] ELSE tracer

ObInit ==
    /\ obCls \in ObClasses
    /\ obAsserts \in BOOLEAN
    /\ IF obCls \in DataClasses
       THEN /\ obKeys \in SUBSET DictKeys
            /\ obTracer = None /\ obName = "tagged" /\ obIsFile = TRUE
       ELSE /\ obKeys = {}
            /\ obTracer \in TracerArgs
            /\ obName \in NameKinds
            /\ obIsFile \in BOOLEAN
            /\ obName = "dict" => ~obIsFile
    /\ obPc = "new"
    /\ obRaised = None
    /\ obAttrs = {}
    /\ obHeld = None
    /\ obSelfTracer = None
    /\ obLoads = 0
    /\ obReads = 0
    /\ obSolver = FALSE
    /\ obEvals = 0

ObIdle ==
    /\ obCls = None /\ obKeys = {} /\ obTracer = None /\ obName = None
    /\ obIsFile = FALSE /\ obAsserts = FALSE
    /\ obPc = "idle"
    /\ obRaised = None
    /\ obAttrs = {}
    /\ obHeld = None
    /\ obSelfTracer = None
    /\ obLoads = 0
    /\ obReads = 0
    /\ obSolver = FALSE
    /\ obEvals = 0

\* the context constructs its data object and then its solver
\* (self._data = ...Data(self, data_dict); self._solver = ...Solver(self));
\* the constructor loads the measurement itself, not through the property
DataInit ==
    /\ obPc = "new"
    /\ obCls \in DataClasses
    /\ LET exc == DataInitOutcome(obCls, obKeys, obAsserts)
       IN  /\ obRaised' = exc
           /\ obPc' = IF exc = None THEN "built" ELSE "raised"
           /\ obSolver' = (exc = None)
    /\ UNCHANGED <<obCls, obKeys, obTracer, obName, obIsFile, obAsserts, obAttrs,
                   obHeld, obSelfTracer, obLoads, obReads, obEvals>>
    /\ UNCHANGED <<llvars, solvars, fanvars, qvars, ptvars, bovars, bxvars, bgvars, tmvars>>

\* Artery.__init__: the attribute is set with the file name (or dict), read
\* through the property, and the tracer is taken from the name when not given
ArteryInit ==
    /\ obPc = "new"
    /\ obCls = "Artery"
    /\ LET exc == ArteryInitOutcome(obTracer, obName, obIsFile, obAsserts)
       IN  /\ obRaised' = exc
           /\ obPc' = IF exc = None THEN "built" ELSE "raised"
           /\ obSelfTracer' = IF exc = None THEN ArteryTracer(obTracer, obName) ELSE None
    /\ obAttrs' = {Mangled("Artery")}
    /\ obLoads' = IF obName # "dict" /\ obIsFile THEN obLoads + 1 ELSE obLoads
    /\ obHeld' = IF obName = "dict" \/ obIsFile THEN "dict" ELSE "name"
    /\ UNCHANGED <<obCls, obKeys, obTracer, obName, obIsFile, obAsserts, obReads,
                   obSolver, obEvals>>
    /\ UNCHANGED <<llvars, solvars, fanvars, qvars, ptvars, bovars, bxvars, bgvars, tmvars>>

\* a read of the property input_func_measurement after construction.
\* Data classes: if hasattr(self, "__input_func_measurement") return the copy,
\* else load and store under self.__input_func_measurement.
\* Artery: if the attribute holds a dict return the copy, else load.
InputFuncMeasurement ==
    /\ obPc \in {"built", "fitted"}
    /\ obReads < MaxReads
    /\ obReads' = obReads + 1
    /\ IF obCls \in DataClasses
       THEN IF "__input_func_measurement" \in obAttrs
            THEN UNCHANGED <<obAttrs, obHeld, obLoads>>
            ELSE /\ obLoads' = obLoads + 1
                 /\ obAttrs' = obAttrs \cup {Mangled(obCls)}
                 /\ UNCHANGED obHeld
       ELSE IF obHeld = "dict"
            THEN UNCHANGED <<obAttrs, obHeld, obLoads>>
            ELSE /\ obLoads' = obLoads + 1
                 /\ obHeld' = "dict"
                 /\ UNCHANGED obAttrs
    /\ UNCHANGED <<obCls, obKeys, obTracer, obName, obIsFile, obAsserts, obPc,
                   obRaised, obSelfTracer, obSolver, obEvals>>
    /\ UNCHANGED <<llvars, solvars, fanvars, qvars, ptvars, bovars, bxvars, bgvars, tmvars>>

\* run_nested on a constructed object: Artery.run_nested hands the model to
\* the solver, which constructs the sampler and evaluates the likelihood
ObRunNested ==
    /\ obPc = "built"
    /\ obPc' = "fitted"
    /\ obSolver' = TRUE
    /\ obEvals' = obEvals + 1
    /\ UNCHANGED <<obCls, obKeys, obTracer, obName, obIsFile, obAsserts, obRaised,
                   obAttrs, obHeld, obSelfTracer, obLoads, obReads>>
    /\ UNCHANGED <<llvars, solvars, fanvars, qvars, ptvars, bovars, bxvars, bgvars, tmvars>>

ObNext == DataInit \/ ArteryInit \/ InputFuncMeasurement \/ ObRunNested


(***************************************************************************)
(* Construction of a TissueModel: TissueModel.__init__, which calls        *)
(* adjusted_input_function three times and then assigns ARTERY, the later  *)
(* calls of adjusted_input_function, and fqfp_results.                     *)
(***************************************************************************)
MaxCalls == 2

\* the input_function argument: a file name holding "MipIdif_idif", one
\* holding "TwiliteKit-do-make-input-func-nomodel", one holding "_proc-" and
\* "-aif", any other file name, or a dict
InputKinds == {"MipIdif_idif", "TwiliteKit", "aif", "other", "dict"}
TruthsArgs == {None, "given"}

\* the class adjusted_input_function selects from the file name
SelectedArtery(fqfn) ==
    CASE fqfn = "MipIdif_idif" -> "Boxcar"
      [] fqfn = "TwiliteKit"   -> "RadialArtery"
      [] fqfn = "aif"          -> "TrivialArtery"
      [] OTHER                 -> None

\* the keywords Boxcar.__init__(self, input_func_measurement) accepts
BoxcarKeywords == {}

\* the exception raised by the statement that builds the artery, or None.
\* self.truths[:14] is evaluated before the call and copies _truths_internal
SelectOutcome(fqfn, truths, isfile) ==
    CASE fqfn = "other" -> "RuntimeError"
      [] fqfn = "aif" -> IF isfile THEN None ELSE "FileNotFoundError"
      [] OTHER ->
           IF truths = None THEN "AttributeError"
           ELSE IF fqfn = "MipIdif_idif" /\ "truths" \notin BoxcarKeywords
                THEN "TypeError"
                ELSE IF isfile THEN None ELSE "FileNotFoundError"

\* the first call of adjusted_input_function, made by __init__:
\* [exc, ARTERY, held]
FirstCall(fqfn, truths, isfile, asserts) ==
    IF fqfn = "dict" THEN [exc |-> None, ARTERY |-> None, held |-> "dict"]
    ELSE IF asserts /\ ~isfile
         THEN [exc |-> "AssertionError", ARTERY |-> None, held |-> "name"]
         ELSE LET exc == SelectOutcome(fqfn, truths, isfile)
              IN  IF exc # None
                  THEN [exc |-> exc, ARTERY |-> None, held |-> "name"]
                  ELSE [exc |-> None, ARTERY |-> SelectedArtery(fqfn), held |-> "dict"]

\* str.replace of "ModelAndArtery", "Model" and "Radial" by "", applied to
\* the class name of self.ARTERY
Replaced(name) == IF name = "RadialArtery" THEN "Artery" ELSE name

\* self.ARTERY.__class__.__name__
ClassName(artery) == IF artery = None THEN "NoneType" ELSE artery

TmInit ==
    /\ tmInput \in InputKinds
    /\ tmTruths \in TruthsArgs
    /\ tmIsFile \in BOOLEAN
    /\ tmInput = "dict" => ~tmIsFile
    /\ tmAsserts \in BOOLEAN
    /\ tmPc = "new"
    /\ tmRaised = None
    /\ tmARTERY = None
    /\ tmHeld = "name"
    /\ tmCalls = 0
    /\ tmResults = None

TmIdle ==
    /\ tmInput = None /\ tmTruths = None /\ tmIsFile = FALSE /\ tmAsserts = FALSE
    /\ tmPc = "idle"
    /\ tmRaised = None
    /\ tmARTERY = None
    /\ tmHeld = None
    /\ tmCalls = 0
    /\ tmResults = None

\* TissueModel.__init__: the first adjusted_input_function() selects the
\* artery and caches the dict, the next two return the cached dict, and
\* between them the constructor executes self.ARTERY = None
TissueModelInit ==
    /\ tmPc = "new"
    /\ LET c == FirstCall(tmInput, tmTruths, tmIsFile, tmAsserts)
       IN  /\ tmRaised' = c.exc
           /\ tmPc' = IF c.exc = None THEN "built" ELSE "raised"
           /\ tmHeld' = c.held
           \* when the calls returned, self.ARTERY = None overwrites the selection
           /\ tmARTERY' = IF c.exc = None THEN None ELSE c.ARTERY
    /\ UNCHANGED <<tmInput, tmTruths, tmIsFile, tmAsserts, tmCalls, tmResults>>
    /\ UNCHANGED <<llvars, solvars, fanvars, qvars, ptvars, bovars, bxvars, bgvars, obvars>>

\* a call of adjusted_input_function() on a constructed model: the cached
\* dict is returned, nothing is assigned
AdjustedInputFunction ==
    /\ tmPc = "built"
    /\ tmCalls < MaxCalls
    /\ tmCalls' = tmCalls + 1
    /\ IF tmHeld = "dict"
       THEN UNCHANGED <<tmARTERY, tmHeld>>
       ELSE /\ tmARTERY' = SelectedArtery(tmInput)
            /\ tmHeld' = "dict"
    /\ UNCHANGED <<tmInput, tmTruths, tmIsFile, tmAsserts, tmPc, tmRaised, tmResults>>
    /\ UNCHANGED <<llvars, solvars, fanvars, qvars, ptvars, bovars, bxvars, bgvars, obvars>>

\* fqfp_results: ... + self.ARTERY.__class__.__name__, after the replacements
FqfpResults ==
    /\ tmPc = "built"
    /\ tmResults' = Replaced(ClassName(tmARTERY))
    /\ UNCHANGED <<tmInput, tmTruths, tmIsFile, tmAsserts, tmPc, tmRaised, tmARTERY,
                   tmHeld, tmCalls>>
    /\ UNCHANGED <<llvars, solvars, fanvars, qvars, ptvars, bovars, bxvars, bgvars, obvars>>

TmNext == TissueModelInit \/ AdjustedInputFunction \/ FqfpResults


(***************************************************************************)
(* Posterior quantiles: DynestySolverLegacy.quantile, which calls          *)
(* dynesty.utils.quantile once per parameter, and the package that         *)
(* TissueModel.run_nested_for_indexed_tac assembles from its result.       *)
(* Quantile values are exact rationals [kind, num, den]; NaN is a value.   *)
(***************************************************************************)
\* the parameters of the model (two of the 14 columns of res["samples"])
Params == 1 .. 2

SampleVals == {0, 2}
WeightVals == {0, 1, 2}

RECURSIVE GCD(_, _)
GCD(a, b) == IF b = 0 THEN a ELSE GCD(b, a % b)

RNaN == [kind |-> "nan", num |-> 0, den |-> 1]

\* the rational n / d, d > 0, in lowest terms
Rat(n, d) ==
    LET g == GCD(Abs(n), d)
    IN  [kind |-> "num", num |-> n \div g, den |-> d \div g]

\* a <= b on floats: false as soon as one side is NaN
RLeq(a, b) ==
    /\ a.kind = "num"
    /\ b.kind = "num"
    /\ a.num * b.den <= b.num * a.den

Perms(n) == {p \in [1 .. n -> 1 .. n] : \A i, j \in 1 .. n : i # j => p[i] # p[j]}

\* np.argsort(x): an order of the indices that sorts x; the order among equal
\* values is not fixed by the sort
ArgSorts(x) ==
    {p \in Perms(Len(x)) : \A i \in 1 .. (Len(x) - 1) : x[p[i]] <= x[p[i + 1]]}

\* np.cumsum(sw): the sum of the first j weights
RECURSIVE CumSum(_, _)
CumSum(sw, j) == IF j = 0 THEN 0 ELSE sw[j] + CumSum(sw, j - 1)

\* np.interp(q, cdf, xs) for q = qn / 1000, where cdf = <<0, C_1/T, ..., C_(n-1)/T>>,
\* C_j = CumSum(sw, j) and T = C_(n-1) > 0: q lies in [cdf[j], cdf[j+1]) for the
\* last j with cdf[j] <= q, and the value is read off the segment from xs[j]
\* to xs[j+1]
Interp(qn, xs, sw) ==
    LET n == Len(xs)
        T == CumSum(sw, n - 1)
        j == CHOOSE i \in 1 .. (n - 1) :
                 /\ 1000 * CumSum(sw, i - 1) <= qn * T
                 /\ qn * T < 1000 * CumSum(sw, i)
    IN  IF 1000 * CumSum(sw, j - 1) = qn * T
        THEN Rat(xs[j], 1)
        ELSE Rat(xs[j] * 1000 * sw[j]
                 + (qn * T - 1000 * CumSum(sw, j - 1)) * (xs[j + 1] - xs[j]),
                 1000 * sw[j])

\* dynesty.utils.quantile(x, [0.025, 0.5, 0.975], weights=weights) under the
\* sorting order idx: the three quantiles in the order asked for.  When the
\* weights before the last sorted sample sum to 0, cdf /= cdf[-1] is 0/0 and
\* np.interp reads a NaN abscissa: the value is NaN, or xs[1] where xs[1] = xs[2]
\* on the builds of numpy that retry a NaN segment
DyQuantileSorted(x, weights, idx, retries) ==
    LET n  == Len(x)
        xs == [j \in 1 .. n |-> x[idx[j]]]
        sw == [j \in 1 .. n |-> weights[idx[j]]]
    IN  IF CumSum(sw, n - 1) = 0
        THEN (IF retries /\ xs[1] = xs[2]
              THEN <<Rat(xs[1], 1), Rat(xs[1], 1), Rat(xs[1], 1)>>
              ELSE <<RNaN, RNaN, RNaN>>)
        ELSE <<Interp(25, xs, sw), Interp(500, xs, sw), Interp(975, xs, sw)>>

\* every list dynesty.utils.quantile may return for the column x
DyQuantile(x, weights, retries) ==
    {DyQuantileSorted(x, weights, idx, retries) : idx \in ArgSorts(x)}

\* samples = res["samples"].T: the column of parameter i
Column(samples, i) == [j \in 1 .. Len(samples) |-> samples[j][i]]

\* a quantile that returns its arrays in the order low, median, high
QuantileLowFirst(qs) ==
    << [i \in Params |-> qs[i][1]], [i \in Params |-> qs[i][2]],
       [i \in Params |-> qs[i][3]] >>

\* ql[i], qm[i], qh[i] = dyutils.quantile(...); return qm, ql, qh
QuantileReturn(qs) ==
    << [i \in Params |-> qs[i][2]], [i \in Params |-> qs[i][1]],
       [i \in Params |-> qs[i][3]] >>

NoPackage == <<>>

QInit ==
    /\ \E n \in 1 .. MaxSamples :
         /\ qSamples \in [1 .. n -> [Params -> SampleVals]]
         /\ qWeights \in [1 .. n -> WeightVals]
         \* the weights are exp(logwt - logz): they sum to 1, some may underflow to 0
         /\ \E j \in 1 .. n : qWeights[j] > 0
    /\ qRetries \in BOOLEAN
    /\ qPc = "ready"
    /\ qRet = <<>>
    /\ qRaised = "none"
    /\ qPkg = NoPackage

QIdle ==
    /\ qSamples = <<>>
    /\ qWeights = <<>>
    /\ qRetries = FALSE
    /\ qPc = "ready"
    /\ qRet = <<>>
    /\ qRaised = "none"
    /\ qPkg = NoPackage

\* self.solver.quantile(_res): with a single sample np.cumsum(sw)[:-1] is empty
\* and cdf[-1] raises IndexError in the first pass of the loop
Quantile ==
    /\ qPc = "ready"
    /\ IF Len(qSamples) = 1
       THEN /\ qRaised' = "IndexError"
            /\ qPc' = "raised"
            /\ UNCHANGED qRet
       ELSE /\ \E qs \in [Params -> UNION {DyQuantile(Column(qSamples, i), qWeights, qRetries) :
                                              i \in Params}] :
                 /\ \A i \in Params : qs[i] \in DyQuantile(Column(qSamples, i), qWeights, qRetries)
                 /\ qRet' = QuantileReturn(qs)
            /\ qPc' = "returned"
            /\ UNCHANGED qRaised
    /\ UNCHANGED <<qSamples, qWeights, qRetries, qPkg>>
    /\ UNCHANGED <<llvars, solvars, fanvars, ptvars, bovars, bxvars, extvars>>

\* _qm, _ql, _qh = self.solver.quantile(_res);
\* _rho_pred, _, _, _ = self.signalmodel(self.data(_qm)); package = {...}
AssemblePackage ==
    /\ qPc = "returned"
    /\ LET _qm == qRet[1]
           _ql == qRet[2]
           _qh == qRet[3]
       IN  qPkg' = << [qm |-> _qm, ql |-> _ql, qh |-> _qh,
                       rho_pred |-> <<"signalmodel", _qm>>] >>
    /\ qPc' = "packaged"
    /\ UNCHANGED <<qSamples, qWeights, qRetries, qRet, qRaised>>
    /\ UNCHANGED <<llvars, solvars, fanvars, ptvars, bovars, bxvars, extvars>>

ExtIdle == BgIdle /\ ObIdle /\ TmIdle
NumIdle == QIdle /\ PTIdle /\ BoIdle /\ BxIdle /\ ExtIdle

QNext == Quantile \/ AssemblePackage

(***************************************************************************)
(* Specifications                                                          *)
(***************************************************************************)
InitLoglike == LLInit /\ SolIdle /\ FanIdle /\ NumIdle
NextLoglike == CallLoglike
SpecLoglike == InitLoglike /\ [][NextLoglike]_vars

InitSolver == LLIdle /\ SolInit /\ FanIdle /\ NumIdle
SpecSolver == InitSolver /\ [][SolNext]_vars

InitFanout == LLIdle /\ SolIdle /\ FanInit /\ NumIdle
SpecFanout == InitFanout /\ [][FanNext]_vars

InitQuantile == LLIdle /\ SolIdle /\ FanIdle /\ QInit /\ PTIdle /\ BoIdle /\ BxIdle /\ ExtIdle
SpecQuantile == InitQuantile /\ [][QNext]_vars

InitPrior == LLIdle /\ SolIdle /\ FanIdle /\ QIdle /\ PTInit /\ BoIdle /\ BxIdle /\ ExtIdle
SpecPrior == InitPrior /\ [][PTNext]_vars

InitBolus == LLIdle /\ SolIdle /\ FanIdle /\ QIdle /\ PTIdle /\ BoInit /\ BxIdle /\ ExtIdle
SpecBolus == InitBolus /\ [][BoNext]_vars

InitBoxcar == LLIdle /\ SolIdle /\ FanIdle /\ QIdle /\ PTIdle /\ BoIdle /\ BxInit /\ ExtIdle
SpecBoxcar == InitBoxcar /\ [][BxNext]_vars

InitGlobals ==
    LLIdle /\ SolIdle /\ FanIdle /\ QIdle /\ PTIdle /\ BoIdle /\ BxIdle /\ BgInit /\ ObIdle /\ TmIdle
SpecGlobals == InitGlobals /\ [][BgNext]_vars

InitObjects ==
    LLIdle /\ SolIdle /\ FanIdle /\ QIdle /\ PTIdle /\ BoIdle /\ BxIdle /\ BgIdle /\ ObInit /\ TmIdle
SpecObjects == InitObjects /\ [][ObNext]_vars

InitTissueModel ==
    LLIdle /\ SolIdle /\ FanIdle /\ QIdle /\ PTIdle /\ BoIdle /\ BxIdle /\ BgIdle /\ ObIdle /\ TmInit
SpecTissueModel == InitTissueModel /\ [][TmNext]_vars

(***************************************************************************)
(* Properties                                                              *)
(***************************************************************************)
Range(f) == {f[i] : i \in DOMAIN f}

\* the Gaussian log-likelihood -0.5*sum((pred-obs)^2/sigma^2 + ln(2*pi*sigma^2))
GaussLogLikelihood(pred, obs, sigma) ==
    FNegHalf(FSum([i \in 1 .. Len(pred) |->
        FAdd(FDiv(FMul(FSub(pred[i], obs[i]), FSub(pred[i], obs[i])),
                  FMul(Fin(sigma), Fin(sigma))),
             FLog(FMul(TwoPi, FMul(Fin(sigma), Fin(sigma)))))]))

\* the proposal has noise scale 0 or a prediction with a non-finite value
Degenerate == Last(llV) = 0 \/ \E i \in DOMAIN llPred : ~isfinite(llPred[i])

\* C1 as stated: loglike returns the sentinel -1e300 exactly when sigma is 0 or
\* the prediction has a non-finite value, and the Gaussian log-likelihood
\* unchanged for every other proposal
C1_SentinelIffDegenerate ==
    llPc = "returned" =>
        IF Degenerate
        THEN llRet = Sentinel
        ELSE llRet = GaussLogLikelihood(llPred, llObs, Last(llV))

\* C1 as amended: loglike always returns a finite value; it returns the sentinel
\* whenever sigma is 0 or the prediction has a non-finite value and whenever
\* the Gaussian log-likelihood evaluates to a non-finite value (overflow of a
\* finite prediction included), and the Gaussian log-likelihood unchanged
\* whenever that value is finite
C1_SentinelIffNotFinite ==
    llPc = "returned" =>
        /\ isfinite(llRet)
        /\ Degenerate => llRet = Sentinel
        /\ IF isfinite(GaussLogLikelihood(llPred, llObs, Last(llV)))
           THEN llRet = GaussLogLikelihood(llPred, llObs, Last(llV))
           ELSE llRet = Sentinel

\* loglike has returned the sentinel for a finite prediction with sigma = 0
C1_Witness ==
    /\ llPc = "returned"
    /\ Last(llV) = 0
    /\ \A i \in DOMAIN llPred : isfinite(llPred[i])
    /\ llRet = Sentinel

\* the regions whose worker returned a package with its fields
Fitted == {r \in Regions : wstatus[r].st = "returned" /\ ~wstatus[r].pkg.empty}

BundleKeys == {"res", "logz", "information", "qm", "ql", "qh", "rho_pred", "resid"}
RowKeys == {"qm", "ql", "qh", "rho_pred", "resid"}

\* C2 as stated: when the aggregation step of a region raises, no exception
\* propagates out of the coordinator, and the assembled bundle holds the
\* entries of every other region
C2_AggregationFailureTolerated ==
    aggRaised # {} =>
        /\ excOut = "none"
        /\ bundle # <<>> =>
             \A r \in Fitted \ aggRaised : \A key \in BundleKeys :
                 FitValue(key, r) \in Range(bundle[1][key])

\* C3 as stated: when a worker raises inside the parallel map, the batch still
\* completes with the regions that succeeded and a log record is written for
\* the region that failed
C3_WorkerFailureTolerated ==
    (pc # "starmap" /\ \E r \in Regions : wstatus[r].st = "raised") =>
        /\ excOut = "none"
        /\ pc # "aborted"
        /\ logged # <<>>

\* every region was fitted and aggregated without an exception
AllSucceeded == Fitted = Regions /\ aggRaised = {}

\* C4: when all regions succeed, row i of every array of the bundle is the
\* result of input region i, in whatever order the workers finished
C4_RowsFollowInputOrder ==
    (bundle # <<>> /\ AllSucceeded) =>
        \A key \in BundleKeys :
            bundle[1][key] = [i \in 1 .. NRegions |-> FitValue(key, i - 1)]

\* a bundle was assembled from workers that finished out of input order
C4_Witness == bundle # <<>> /\ AllSucceeded /\ outOfOrder

\* C5 as stated: in every bundle, batches with a skipped region included, each
\* row i present in qm, ql, qh, rho_pred and resid is the result of region i
C5_RowsAlignedAfterSkip ==
    bundle # <<>> =>
        \A key \in RowKeys : \A i \in DOMAIN bundle[1][key] :
            bundle[1][key][i] = FitValue(key, i - 1)

\* C6 as stated: a batch in which zero regions succeeded (the failure of each
\* was caught and logged by the loop) still finishes aggregation and hand-off
\* with no exception leaving the coordinator
C6_EmptyBatchCompletes ==
    (packages # <<>> /\ aggRaised = Regions /\ Len(logged) = NRegions)
    => (excOut = "none" /\ pc # "aborted")

\* C7: a call with resume set whose checkpoint file is missing leaves
\* run_nested_for_list by an exception: no sampler is constructed and
\* sampler.run_nested is not entered
C7_ResumeMissingIsFatal ==
    [][\A r \in Regions :
         (/\ sstate[r] = "Configured"
          /\ fits[r].resume
          /\ fits[r].checkpoint_file \notin files
          /\ sstate'[r] # "Configured"
          /\ restarts' = restarts)
         => (/\ sstate'[r] = "Failed"
             /\ sampler'[r] = NoSampler
             /\ built'[r] = 0
             /\ "Running" \notin Range(spath'[r]))]_vars

\* a resumed call has failed before its sampler ran
C7_Witness ==
    \E r \in Regions :
        sstate[r] = "Failed" /\ fits[r].resume /\ spath[r] = <<"Configured">>

IsPrefix(s, t) == Len(s) <= Len(t) /\ s = SubSeq(t, 1, Len(s))

FreshPath == <<"Configured", "Running", "Completed">>
ResumedPath == <<"Configured", "Resuming", "Running", "Completed">>

\* C8: a call without resume goes Configured, Running, Completed with one new
\* sampler bound to the model's likelihood, prior transform, dimensionality,
\* sampling method, live-point count and random state; a call with resume
\* goes Configured, Resuming, Running, Completed with the restored sampler and
\* constructs none; results are read only once the run has returned
C8_TwoPaths ==
    \A r \in Regions :
        sstate[r] # "idle" =>
            /\ IsPrefix(spath[r], IF fits[r].resume THEN ResumedPath ELSE FreshPath)
            /\ sstate[r] = "Completed" =>
                 spath[r] = (IF fits[r].resume THEN ResumedPath ELSE FreshPath)
            /\ sstate[r] # "Failed" => sstate[r] = spath[r][Len(spath[r])]
            /\ fits[r].resume =>
                 /\ built[r] = 0
                 /\ sampler[r] \in {NoSampler, RestoredSampler}
                 /\ "Running" \in Range(spath[r]) => sampler[r] = RestoredSampler
            /\ ~fits[r].resume =>
                 /\ "Running" \in Range(spath[r]) =>
                      /\ built[r] = 1
                      /\ sampler[r].origin = "new"
                      /\ sampler[r].loglikelihood = "mdl.loglike"
                      /\ sampler[r].prior_transform = "mdl.prior_transform()"
                      /\ sampler[r].ndim = "mdl.ndim"
                      /\ sampler[r].sample = "self.sample"
                      /\ sampler[r].nlive = "self.nlive"
                      /\ sampler[r].rstate = "self.rstate"
                 /\ "Running" \notin Range(spath[r]) =>
                      built[r] = 0 /\ sampler[r] = NoSampler
            /\ resRead[r] => (sstate[r] = "Completed" /\ "Running" \in Range(spath[r]))

\* a call with resume set has completed on the restored sampler
C8_Witness ==
    \E r \in Regions :
        /\ sstate[r] = "Completed"
        /\ fits[r].resume
        /\ resRead[r]
        /\ sampler[r] = RestoredSampler

\* C9 as stated: no two regions' fits are given the same checkpoint file path
\* (two fits given no checkpoint file at all share none)
C9_CheckpointPerRegion ==
    \A r, q \in Regions :
        (/\ r # q
         /\ fits[r].region = r /\ fits[q].region = q
         /\ fits[r].checkpoint_file # None)
        => fits[r].checkpoint_file # fits[q].checkpoint_file

\* C10 as stated: every fit the fan-out coordinator launches runs with a
\* checkpoint file, and after a restart it resumes from that checkpoint
C10_FanoutFitsCheckpointed ==
    \A r \in Regions :
        (entry = "work" /\ fits[r].region = r) =>
            /\ fits[r].checkpoint_file # None
            /\ restarts > 0 => fits[r].resume

\* the value a degenerate posterior puts all its weight on, for parameter i
Weighted == {j \in 1 .. Len(qWeights) : qWeights[j] > 0}
IsNum(a) == a.kind = "num"

\* C11 as stated: quantile returns, per parameter, the 2.5th percentile first,
\* the 50th second and the 97.5th third
C11_QuantileLowMedianHigh ==
    qPc = "returned" =>
        \A i \in Params : \E t \in DyQuantile(Column(qSamples, i), qWeights, qRetries) :
            qRet[1][i] = t[1] /\ qRet[2][i] = t[2] /\ qRet[3][i] = t[3]

\* C11 amended: quantile returns, per parameter, the 50th percentile first, the
\* 2.5th second and the 97.5th third, so that second <= first <= third wherever
\* the percentiles are numbers
C11_QuantileMedianLowHigh ==
    qPc = "returned" =>
        \A i \in Params :
            /\ \E t \in DyQuantile(Column(qSamples, i), qWeights, qRetries) :
                   qRet[1][i] = t[2] /\ qRet[2][i] = t[1] /\ qRet[3][i] = t[3]
            /\ IsNum(qRet[1][i]) => RLeq(qRet[2][i], qRet[1][i]) /\ RLeq(qRet[1][i], qRet[3][i])

\* quantile returned three different percentiles for a parameter
C11_Witness ==
    /\ qPc = "returned"
    /\ \E i \in Params :
         /\ IsNum(qRet[1][i])
         /\ qRet[2][i] # qRet[1][i]
         /\ qRet[1][i] # qRet[3][i]

\* C12 as stated: in every package qm is the 50th, ql the 2.5th and qh the
\* 97.5th weighted percentile of each parameter, ql <= qm <= qh, and rho_pred
\* is the forward model evaluated at qm
C12_PackageQuantiles ==
    qPkg # NoPackage =>
        /\ \A i \in Params :
              /\ \E t \in DyQuantile(Column(qSamples, i), qWeights, qRetries) :
                     qPkg[1].ql[i] = t[1] /\ qPkg[1].qm[i] = t[2] /\ qPkg[1].qh[i] = t[3]
              /\ RLeq(qPkg[1].ql[i], qPkg[1].qm[i])
              /\ RLeq(qPkg[1].qm[i], qPkg[1].qh[i])
        /\ qPkg[1].rho_pred = <<"signalmodel", qPkg[1].qm>>

\* C13 as stated: when one sample carries all the importance weight, quantile
\* returns that sample's value as low, median and high of every parameter
C13_DegenerateWeightsFallBack ==
    (qPc # "ready" /\ Cardinality(Weighted) = 1) =>
        /\ qPc # "raised"
        /\ \A i \in Params : \A j \in Weighted : \A c \in 1 .. 3 :
              qRet[c][i] = Rat(qSamples[j][i], 1)

\* a few units in the last place of 1
Tolerance == Canon(1, 2 - Precision)

InUnit(a) == PLeq(P0, a) /\ PLeq(a, P1)

RECURSIVE MinExp(_)
MinExp(ws) ==
    IF Len(ws) = 1 THEN ws[1].e
    ELSE LET r == MinExp(Tail(ws)) IN IF ws[1].e < r THEN ws[1].e ELSE r

\* the exact sum of the floats ws, in units of 2^lo
RECURSIVE ScaledSum(_, _)
ScaledSum(ws, lo) ==
    IF ws = <<>> THEN 0 ELSE ws[1].m * Pow2(ws[1].e - lo) + ScaledSum(Tail(ws), lo)

\* the floats ws sum to 1, exactly
SumIsOne(ws) ==
    LET lo == IF MinExp(ws) < 0 THEN MinExp(ws) ELSE 0
    IN  ScaledSum(ws, lo) = Pow2(0 - lo)

\* the exact sum of the floats ws is 1 up to a few units in the last place
SumNearOne(ws) ==
    LET lo == IF MinExp(ws) < 0 THEN MinExp(ws) ELSE 0
    IN  Abs(ScaledSum(ws, lo) - Pow2(0 - lo)) * Pow2(Precision - 2) <= Pow2(0 - lo)

FractionsInUnit == InUnit(ptV[IdxF2]) /\ InUnit(ptV[IdxF3]) /\ InUnit(ptV[IdxFss])

\* C14 as stated: with every table of Artery the fractions f_2, f_3, f_ss lie in
\* [0,1], and the weights of the 2-, 3- and 4-bolus mixtures each lie in [0,1]
\* and sum to exactly 1
C14_WeightsSumToOne ==
    (ptPc = "mixed" /\ ptCls = "Artery") =>
        /\ FractionsInUnit
        /\ \A c \in 1 .. 3 :
             /\ \A i \in 1 .. Len(ptWeights[c]) : InUnit(ptWeights[c][i])
             /\ SumIsOne(ptWeights[c])

\* C14 amended: the fractions and every weight lie in [0,1], and the weights of
\* each mixture sum to 1 up to the rounding of the float arithmetic
C14_WeightsSumNearOne ==
    (ptPc = "mixed" /\ ptCls = "Artery") =>
        /\ FractionsInUnit
        /\ \A c \in 1 .. 3 :
             /\ \A i \in 1 .. Len(ptWeights[c]) : InUnit(ptWeights[c][i])
             /\ SumNearOne(ptWeights[c])

\* the weights of the 4-bolus mixture were formed from three fractions
\* strictly inside (0,1), and rounding took their sum off 1
C14_Witness ==
    /\ ptPc = "mixed"
    /\ ptCls = "Artery"
    /\ \A i \in {IdxF2, IdxF3, IdxFss} : ptV[i] # P0 /\ ptV[i] # P1
    /\ ~SumIsOne(ptWeights[3])

\* C15 as stated: after a prior transform returned, the caller's u holds the
\* values it held before the call and the returned vector is another object
C15_PriorTransformLeavesU ==
    ptPc \in {"returned", "mixed"} => (ptU = ptDrawn /\ ~ptSameObject)

\* C16: the table is a function of the tracer tag alone: "co" and "oc" select
\* the co table, "oo" the oo table, every other tag the default table, and the
\* selection always completes
C16_TableByTracer ==
    /\ (ptCls = "Artery" /\ ptPc # "ready") =>
          ptTable = (IF ptTracer \in {"co", "oc"} THEN "co"
                     ELSE IF ptTracer = "oo" THEN "oo" ELSE "default")
    /\ (ptCls = "Artery" /\ ptPc = "ready") => ENABLED SelectPriorTransform

\* an unknown tag got the default table
C16_Witness ==
    /\ ptCls = "Artery"
    /\ ptTracer \notin {"co", "oc", "oo"}
    /\ ptPc = "selected"
    /\ ptTable = "default"

\* C17: every table of Artery has one line per coordinate of the model, each
\* v_i is u_i * scale_i + offset_i of the drawn u_i alone with scale_i # 0, and
\* (v_i - offset_i) / scale_i recovers u_i within floating tolerance
C17_AffinePerCoordinate ==
    (ptPc \in {"returned", "mixed"} /\ ptCls = "Artery") =>
        LET tab == Table(ptTable)
        IN  /\ Len(tab.scale) = Ndim
            /\ Len(ptV) = Ndim
            /\ \A i \in 1 .. Ndim :
                 /\ tab.scale[i] # P0
                 /\ ptV[i] = PAdd(PMul(ptDrawn[i], tab.scale[i]), tab.offset[i])
                 /\ PLeq(PAbs(PSub(PDiv(PSub(ptV[i], tab.offset[i]), tab.scale[i]),
                                   ptDrawn[i])),
                         Tolerance)

\* the default table transformed a u whose coordinates are not all equal
C17_Witness ==
    /\ ptPc = "returned"
    /\ ptCls = "Artery"
    /\ ptTable = "default"
    /\ ptDrawn[IdxF2] # ptDrawn[IdxF3]
    /\ ptDrawn[1] # P0

\* a < b on floats
PLess(a, b) == PLeq(a, b) /\ a # b

\* C19 as stated, for shapes a > 0: solution_1bolus is 0 at every t < t_0, and
\* the four-bolus mixture scaled by A is 0 at every t < t_0 and lies in [0, A]
\* at every t
C19_BolusZeroBeforeArrival ==
    boV.a # P0 =>
    /\ boPc # "ready" =>
          \A i \in DOMAIN boT : PLess(boT[i], boV.t_0) => boRho1[i] = P0
    /\ boPc = "mixed" =>
          \A i \in DOMAIN boT :
              /\ PLess(boT[i], boV.t_0) => boMix[i] = P0
              /\ PLeq(P0, boMix[i])
              /\ PLeq(boMix[i], boV.A)

\* x * 2^Precision as a whole number, for a time x that is a multiple of
\* 2^-Precision
Units(x) == x.m * Pow2(x.e + Precision)

\* n / d towards zero
Trunc(n, d) == IF n >= 0 THEN n \div d ELSE -((-n) \div d)

\* int(frameStart) and int(frameEnd) of frame idx, in exact arithmetic
FrameLo(idx) ==
    Trunc(2 * Units(bxTimesMid[idx]) - Units(bxTaus[idx]), 2 * Pow2(Precision))
FrameHi(idx) ==
    Trunc(2 * Units(bxTimesMid[idx]) + Units(bxTaus[idx]), 2 * Pow2(Precision))

\* the samples of the dense curve at the indices int(frameStart) up to but
\* excluding int(frameEnd)
FrameIndices(idx) ==
    {i \in 0 .. (Len(bxVec) - 1) : FrameLo(idx) <= i /\ i < FrameHi(idx)}

\* the exact sum of the samples at a set of indices
RECURSIVE Total(_)
Total(S) ==
    IF S = {} THEN 0
    ELSE LET i == CHOOSE j \in S : TRUE
         IN  IntValue(bxVec[i + 1]) + Total(S \ {i})

C20_UnitPeakOfIdeal ==
    bxPc \in {"returned", "raised"} =>
        /\ bxRaised = "none"
        /\ BuiltinMax(bxRet.ideal) = P1
        /\ bxRet.signal = apply_boxcar(bxRet.ideal, bxTimesMid, bxTaus)

\* frame idx lies within the dense curve
FrameWithin(idx) == FrameHi(idx) <= Len(bxVec)

\* C30: for frames that start at or after 0 and lie within the dense curve,
\* apply_boxcar returns NaN for exactly the frames whose start and end truncate
\* to the same index, and a finite mean for every other frame
C30_NaNIffEmptyWindow ==
    bxPc = "sampled" =>
        \A idx \in DOMAIN bxTimesMid :
            (FrameLo(idx) >= 0 /\ FrameWithin(idx)) =>
                /\ (bxSampled[idx] = PNaN) <=> (FrameLo(idx) = FrameHi(idx))
                /\ (FrameLo(idx) # FrameHi(idx)) => PIsNum(bxSampled[idx])

\* apply_boxcar returned NaN for an empty window and a finite mean for another
\* frame, both within the dense curve
C30_Witness ==
    /\ bxPc = "sampled"
    /\ \E idx \in DOMAIN bxTimesMid :
           FrameWithin(idx) /\ FrameLo(idx) = FrameHi(idx) /\ bxSampled[idx] = PNaN
    /\ \E idx \in DOMAIN bxTimesMid :
           FrameWithin(idx) /\ FrameLo(idx) < FrameHi(idx) /\ PIsNum(bxSampled[idx])

\* the float of n / 2^Precision, for a whole number n
FromUnits(n) == PDiv(PInt(n), PInt(Pow2(Precision)))

\* max(0.25, x) for x = n / 2^Precision, in exact arithmetic
FlooredUnits(n) == IF 4 * n > Pow2(Precision) THEN n ELSE Pow2(Precision) \div 4

\* C23: in the three- and four-component mixtures the second bolus starts at
\* t_0 + tau_2 with shape max(0.25, p + dp_2), the third at t_0 + tau_2 + tau_3
\* with shape max(0.25, p + dp_2 + dp_3), and no later bolus is evaluated with
\* a shape parameter below 0.25
C23_LaterBolusShiftAndFloor ==
    boPc \in {"mixed", "mixed3"} =>
        /\ Len(boCalls) = IF boPc = "mixed" THEN 3 ELSE 2
        /\ boCalls[2].t_0 = FromUnits(Units(boV.t_0) + Units(boV.tau_2))
        /\ boCalls[2].p = FromUnits(FlooredUnits(Units(boV.p) + Units(boV.dp_2)))
        /\ boPc = "mixed" =>
               /\ boCalls[3].t_0 =
                      FromUnits(Units(boV.t_0) + Units(boV.tau_2) + Units(boV.tau_3))
               /\ boCalls[3].p =
                      FromUnits(FlooredUnits(Units(boV.p) + Units(boV.dp_2)
                                             + Units(boV.dp_3)))
        /\ \A c \in 2 .. Len(boCalls) : PLeq(PDec(1, 4), boCalls[c].p)

\* a four-component mixture whose second bolus kept its shape p + dp_2 and
\* whose third bolus, with p + dp_2 + dp_3 below 0.25, was evaluated at 0.25
C23_Witness ==
    /\ boPc = "mixed"
    /\ PLess(P0, boV.tau_2) /\ PLess(P0, boV.tau_3)
    /\ boCalls[2].p = PAdd(boV.p, boV.dp_2) /\ boV.dp_2 # P0
    /\ boCalls[3].p = PDec(1, 4)
    /\ PLess(PAdd(PAdd(boV.p, boV.dp_2), boV.dp_3), PDec(1, 4))

\* C24 as stated: every bundle the coordinator assembles has exactly the keys
\* logz, information, qm, ql, qh, rho_pred, resid and res, all eight hold the
\* same number of region entries, and a region whose aggregation step raised
\* has an entry in none of them
C24_BundleKeysSameLength ==
    bundle # <<>> =>
        /\ DOMAIN bundle[1] = BundleKeys
        /\ \A key1, key2 \in BundleKeys : Len(bundle[1][key1]) = Len(bundle[1][key2])
        /\ \A r \in aggRaised : \A key \in BundleKeys :
               FitValue(key, r) \notin Range(bundle[1][key])

\* the regions whose fit returned and whose aggregation step did not raise
Succeeded == Fitted \ aggRaised

\* C26 as stated: a coordinator that came to its end with at least one region
\* succeeded called save_results exactly once, whichever regions failed
C26_BundleSavedOnce ==
    (pc \in {"done", "aborted"} /\ Succeeded # {}) => saveCalls = 1

\* C25 as stated: Boxcar.loglike scores every 14-component proposal: it
\* returns a number and no exception leaves it
C25_BoxcarLoglikeScores ==
    bxPc = "scored" => (bxRaised = "none" /\ bxLoglike = "number")

\* C22 as stated: the curve and the frame timing that a Boxcar fit's data and
\* loglike use are those of the measurement the fit was constructed with,
\* whatever other Boxcar fits were constructed or run in the process
C22_FitsShareNoState ==
    \A f \in BoxcarFits : bgSeen[f] # NothingSeen => bgSeen[f] = OwnRead(f)

\* C27: TissueModel.run_nested on 2-D data fits the regions in row order, the
\* sampler of region i scores against row i (RHO = RHOS[i]) so that row i of
\* the package is region i's result, and the package is saved once, after the
\* last region has completed
C27_RowIsItsRegion ==
    entry = "run_nested" =>
        /\ \A r \in Regions : sstate[r] # "idle" =>
               \A q \in Regions : q < r => sstate[q] = "Completed"
        /\ \A r \in Regions : owner[r] \in {NoRegion, r}
        /\ saved <= 1
        /\ saved = 1 => \A r \in Regions : sstate[r] = "Completed"

\* C21: a missing required input (no 'input_func_fqfn', no 'kernel_fqfn' for
\* RadialArteryData, no tracer given or derivable from the file name for
\* Artery) makes the constructor raise, and no solver has been constructed and
\* no likelihood evaluated for the object
MissingInput ==
    \/ obCls \in DataClasses /\ "input_func_fqfn" \notin obKeys
    \/ obCls = "RadialArteryData" /\ "kernel_fqfn" \notin obKeys
    \/ obCls = "Artery" /\ obTracer \in {None, ""} /\ obName \notin {"tagged", "emptytag"}

C28_LoadsAtMostOnce == obLoads <= 1

\* C29: a TissueModel constructed from an input-function file name has as
\* ARTERY the model selected from that name, keeps it across later calls of
\* adjusted_input_function, and fqfp_results names that class
C29_ArteryIsTheSelectedModel ==
    (tmPc = "built" /\ tmInput # "dict") =>
        /\ tmARTERY = SelectedArtery(tmInput)
        /\ tmResults # None => tmResults = Replaced(SelectedArtery(tmInput))
====
